---------------------------- MODULE Spec2Model ----------------------------
(***************************************************************************)
(* Tether: the plan-gating pipeline (constraint validation, scenario       *)
(* simulation, approval gate, monitored execution) and the tool            *)
(* reliability monitor, modelled from src/tether/core.py,                  *)
(* src/tether/execution.py and src/tether/agents/*.py; the standalone      *)
(* execution engines of src/executor.py (handlers, cancellation) and       *)
(* src/execution.py (background execution).                                *)
(*                                                                         *)
(* Numbers.  success_rate and avg_response_time are Python floats updated  *)
(* by x <- 0.1*sample + 0.9*x.  They are kept here as integers in units of *)
(* 1/Scale with Scale = 10^MaxObs, which is exact as long as the monitor   *)
(* receives at most MaxObs reports of whole seconds; past that, each       *)
(* product is rounded to the nearest unit as a float product is rounded to *)
(* the nearest float.  Response times are given in the same units.  The   *)
(* reliability threshold and the success probabilities are kept in        *)
(* percent, money in whole dollars.                                        *)
(***************************************************************************)
EXTENDS Integers, Sequences, FiniteSets, TLC

VARIABLES
    \* ---- ToolReliabilityAgent (src/tether/agents/reliability_agent.py)
    reliability_threshold,  \* percent
    tool_metrics,           \* tool name -> ToolHealth, for the registered names
    tool_order,             \* the dict's insertion order of the names
    alert_callbacks,        \* sequence of callbacks, each "ok" or "raises"
    delivered,              \* alerts handed to callbacks by the last report
    obs,                    \* number of calls made on the monitor (bounds the model)
    lastOp,                 \* the last operation performed and how it ended
    \* ---- concurrent callers of record_execution
    tpc,                    \* thread -> position inside record_execution
    targ,                   \* thread -> [success, response_time] of its call
    tref,                   \* thread -> the object its local `tool` names
    treg,                   \* thread -> value a thread read and has yet to write
    orphans,                \* ToolHealth objects no longer held by tool_metrics
    \* ---- TetherOrchestrator (src/tether/core.py) and ExecutionEngine
    config,                 \* the orchestrator's configuration
    constraints,            \* constraint key -> value, for the supplied keys
    violation_log,
    simulation_history,
    execution_log,
    active_executions,
    pc,                     \* position of the running execute_plan call
    plan, approval_callback, step_executor,
    result,                 \* the result dict being built
    best_simulation,
    engine,                 \* the engine's ExecutionResult and loop index
    trace,                  \* what the running call has done so far, in order
    entry,                  \* the agents' state when the running call began
    returns                 \* outcome of every finished call, in call order

relVars  == <<reliability_threshold, tool_metrics, tool_order, alert_callbacks,
              delivered, obs, lastOp>>
concVars == <<tpc, targ, tref, treg, orphans>>
orchVars == <<config, constraints, violation_log, simulation_history, execution_log,
              active_executions, pc, plan, approval_callback, step_executor,
              result, best_simulation, engine, trace, entry, returns>>
vars == <<relVars, concVars, orchVars>>

---------------------------------------------------------------------------
(* Bounds of the model *)

MaxObs == 4
MaxCallbacks == 2
NThreads == 2
MaxCalls == 2

RECURSIVE Pow10(_)
Pow10(n) == IF n = 0 THEN 1 ELSE 10 * Pow10(n - 1)

Scale == Pow10(MaxObs)

Tools == {"a", "b"}
\* a response time of n seconds, in units of 1/Scale
Seconds(n) == n * Scale
ResponseTimes == {Seconds(0), Seconds(60)}
Thresholds == {82, 95}         \* reliability_threshold, percent
CallbackKinds == {"ok", "raises"}
\* the reports (tool, success, response_time) the monitor is given
Reports ==
    (Tools \X BOOLEAN \X {Seconds(0)}) \cup ({"a"} \X BOOLEAN \X ResponseTimes)

None == "None"

Put(f, k, v) == [x \in DOMAIN f \cup {k} |-> IF x = k THEN v ELSE f[x]]

---------------------------------------------------------------------------
(* ToolReliabilityAgent *)

\* ToolHealth(success_rate=1.0, avg_response_time=0.0, last_failure=None,
\*            failure_count=0), drift_detected defaulting to False
NewToolHealth ==
    [success_rate |-> Scale, avg_response_time |-> 0, last_failure |-> None,
     failure_count |-> 0, drift_detected |-> FALSE]

\* self.tool_metrics[tool_name] = ToolHealth(...): a fresh record under the
\* name, whether or not the name was there; a dict keeps a key's position
register_tool(metrics, order, tool) ==
    [metrics |-> Put(metrics, tool, NewToolHealth),
     order   |-> IF tool \in DOMAIN metrics THEN order ELSE Append(order, tool)]

\* a float product rounded to the nearest representable value, ties to even:
\* n/d in whole units
RoundDiv(n, d) ==
    LET q == n \div d
        r == n % d
    IN  IF 2 * r > d \/ (2 * r = d /\ q % 2 = 1) THEN q + 1 ELSE q

EMAWithoutDecay(sample, old) == RoundDiv(sample, 10) + old

\* alpha * sample + (1 - alpha) * old, alpha = 0.1: each product is rounded,
\* which changes nothing while the values are multiples of ten units
EMA(sample, old) == RoundDiv(sample, 10) + RoundDiv(9 * old, 10)

SuccessRateAfter(h, success) ==
    EMA(IF success THEN Scale ELSE 0, h.success_rate)

ResponseTimeAfter(h, response_time) ==
    EMA(response_time, h.avg_response_time)

BelowThreshold(rate, thr) == rate * 100 < thr * Scale

Degraded(avg) == avg > Seconds(5)

DriftAfterRecomputed(h, rate, thr) == BelowThreshold(rate, thr)

DriftAfterNeverSet(h, rate, thr) == h.drift_detected

\* if tool.success_rate < self.reliability_threshold: tool.drift_detected = True
DriftAfter(h, rate, thr) == h.drift_detected \/ BelowThreshold(rate, thr)

\* lines 39-52: the health record after one report
UpdatedHealth(h, success, response_time, thr) ==
    LET rate == SuccessRateAfter(h, success)
        avg  == ResponseTimeAfter(h, response_time)
    IN  [success_rate      |-> rate,
         avg_response_time |-> avg,
         failure_count     |-> IF success THEN h.failure_count
                               ELSE h.failure_count + 1,
         last_failure      |-> IF success THEN h.last_failure ELSE "now",
         drift_detected    |-> DriftAfter(h, rate, thr)]

\* _trigger_alert: the callbacks are called in list order; the first one that
\* raises ends the loop (and the report) with its exception
RECURSIVE trigger_alert(_, _, _, _)
trigger_alert(cbs, i, type, value) ==
    IF i > Len(cbs) THEN [log |-> <<>>, raised |-> FALSE]
    ELSE LET d == [cb |-> i, type |-> type, value |-> value]
         IN  IF cbs[i] = "raises" THEN [log |-> <<d>>, raised |-> TRUE]
             ELSE LET rest == trigger_alert(cbs, i + 1, type, value)
                  IN  [log |-> <<d>> \o rest.log, raised |-> rest.raised]

\* record_execution as one call: the new metrics, the alerts delivered and
\* whether an alert callback's exception left the call
record_execution(metrics, order, cbs, thr, tool, success, response_time) ==
    LET reg == IF tool \in DOMAIN metrics
               THEN [metrics |-> metrics, order |-> order]
               ELSE register_tool(metrics, order, tool)
        h   == UpdatedHealth(reg.metrics[tool], success, response_time, thr)
        m   == [reg.metrics EXCEPT ![tool] = h]
        rel == IF BelowThreshold(h.success_rate, thr)
               THEN trigger_alert(cbs, 1, "reliability", h.success_rate)
               ELSE [log |-> <<>>, raised |-> FALSE]
        prf == IF ~rel.raised /\ Degraded(h.avg_response_time)
               THEN trigger_alert(cbs, 1, "performance", h.avg_response_time)
               ELSE [log |-> <<>>, raised |-> FALSE]
        \* the calls of _trigger_alert that were made, in order
        fired == (IF BelowThreshold(h.success_rate, thr)
                  THEN <<[type |-> "reliability", value |-> h.success_rate]>>
                  ELSE <<>>)
                 \o (IF ~rel.raised /\ Degraded(h.avg_response_time)
                     THEN <<[type |-> "performance",
                             value |-> h.avg_response_time]>>
                     ELSE <<>>)
    IN  [metrics   |-> m,
         order     |-> reg.order,
         delivered |-> rel.log \o prf.log,
         alerts    |-> fired,
         raised    |-> rel.raised \/ prf.raised]

get_unreliable_tools_by_flag(metrics, order, thr) ==
    SelectSeq(order, LAMBDA t : metrics[t].drift_detected)

get_unreliable_tools(metrics, order, thr) ==
    SelectSeq(order, LAMBDA t : BelowThreshold(metrics[t].success_rate, thr))

---------------------------------------------------------------------------
(* The monitor used on its own, one call at a time *)

\* Config.DEFAULT_CONFIG: the number of paths execute_plan asks the simulator for
NumPaths == 3
DefaultConfig == [num_paths |-> NumPaths]

\* an ExecutionResult, the index of the step the loop is at, and how each
\* call of the step executor went (whether it returned, after how long)
IdleEngine == [status |-> "pending", steps_completed |-> 0, steps_total |-> 0,
               error |-> None, i |-> 0, ran |-> <<>>]

InitRelVars ==
    /\ reliability_threshold \in Thresholds
    /\ tool_metrics = <<>>
    /\ tool_order = <<>>
    /\ alert_callbacks = <<>>
    /\ delivered = <<>>
    /\ obs = 0
    /\ lastOp = [op |-> "init"]

InitConcIdle ==
    /\ tpc = <<>>
    /\ targ = <<>>
    /\ tref = <<>>
    /\ treg = <<>>
    /\ orphans = <<>>

InitOrchIdle ==
    /\ config = DefaultConfig
    /\ constraints = <<>>
    /\ violation_log = <<>>
    /\ simulation_history = <<>>
    /\ execution_log = <<>>
    /\ active_executions = {}
    /\ pc = "idle"
    /\ plan = None
    /\ approval_callback = None
    /\ step_executor = None
    /\ result = None
    /\ best_simulation = <<>>
    /\ engine = IdleEngine
    /\ trace = <<>>
    /\ entry = None
    /\ returns = <<>>

InitRel == InitRelVars /\ InitConcIdle /\ InitOrchIdle

RelRegisterTool(t) ==
    /\ obs < MaxObs
    /\ LET r == register_tool(tool_metrics, tool_order, t)
       IN  /\ tool_metrics' = r.metrics
           /\ tool_order' = r.order
    /\ obs' = obs + 1
    /\ lastOp' = [op |-> "register_tool", tool |-> t]
    /\ UNCHANGED <<reliability_threshold, alert_callbacks, delivered>>
    /\ UNCHANGED <<concVars, orchVars>>

RelRecordExecution(t, success, rt) ==
    /\ obs < MaxObs
    /\ LET r == record_execution(tool_metrics, tool_order, alert_callbacks,
                                 reliability_threshold, t, success, rt)
       IN  /\ tool_metrics' = r.metrics
           /\ tool_order' = r.order
           /\ delivered' = r.delivered
           /\ lastOp' = [op |-> "record_execution", tool |-> t,
                         success |-> success, raised |-> r.raised,
                         alerts |-> r.alerts]
    /\ obs' = obs + 1
    /\ UNCHANGED <<reliability_threshold, alert_callbacks>>
    /\ UNCHANGED <<concVars, orchVars>>

RelAddAlertCallback(kind) ==
    /\ obs < MaxObs
    /\ Len(alert_callbacks) < MaxCallbacks
    /\ alert_callbacks' = Append(alert_callbacks, kind)
    /\ obs' = obs + 1
    /\ lastOp' = [op |-> "add_alert_callback"]
    /\ UNCHANGED <<reliability_threshold, tool_metrics, tool_order, delivered>>
    /\ UNCHANGED <<concVars, orchVars>>

\* get_unreliable_tools(): a query, nothing of the monitor changes
RelGetUnreliableTools ==
    /\ lastOp' = [op |-> "get_unreliable_tools",
                  ret |-> get_unreliable_tools(tool_metrics, tool_order,
                                               reliability_threshold)]
    /\ UNCHANGED <<reliability_threshold, tool_metrics, tool_order,
                   alert_callbacks, delivered, obs>>
    /\ UNCHANGED <<concVars, orchVars>>

NextRel ==
    \/ \E t \in Tools : RelRegisterTool(t)
    \/ \E r \in Reports : RelRecordExecution(r[1], r[2], r[3])
    \/ \E k \in CallbackKinds : RelAddAlertCallback(k)
    \/ RelGetUnreliableTools

SpecRel == InitRel /\ [][NextRel]_vars

---------------------------------------------------------------------------
(* The monitor as the tests of drift detection drive it: besides the calls *)
(* of SpecRel, a fresh tool is given TestCalls reports, TestSuccesses of   *)
(* them successes, in any order, at a threshold of 0.80                    *)
(* (test_get_unreliable_tools, test_alert_callback_triggered).             *)
(* Beyond MaxObs reports EMA rounds at each report, as the float does: the *)
(* rate kept is then within TestCalls units of the exact one.              *)

TestThreshold == 80
TestCalls == 10
TestSuccesses == 2
TestTool == "a"

InitDrift ==
    /\ reliability_threshold \in Thresholds \cup {TestThreshold}
    /\ tool_metrics = <<>>
    /\ tool_order = <<>>
    /\ alert_callbacks = <<>>
    /\ delivered = <<>>
    /\ obs = 0
    /\ lastOp = [op |-> "init"]
    /\ InitConcIdle
    /\ InitOrchIdle

\* the failures reported on the test's tool so far
TestFailures ==
    IF TestTool \in DOMAIN tool_metrics
    THEN tool_metrics[TestTool].failure_count ELSE 0

\* for i in range(10): agent.record_execution(tool, i < 2, ...), the two
\* successes at any place among the ten; the response time plays no part
TestRecordExecution(success) ==
    /\ reliability_threshold = TestThreshold
    /\ obs < TestCalls
    /\ IF success THEN obs - TestFailures < TestSuccesses
       ELSE TestFailures < TestCalls - TestSuccesses
    /\ LET r == record_execution(tool_metrics, tool_order, alert_callbacks,
                                 reliability_threshold, TestTool, success, 0)
       IN  /\ tool_metrics' = r.metrics
           /\ tool_order' = r.order
           /\ delivered' = r.delivered
           /\ lastOp' = [op |-> "record_execution", tool |-> TestTool,
                         success |-> success, raised |-> r.raised,
                         alerts |-> r.alerts]
    /\ obs' = obs + 1
    /\ UNCHANGED <<reliability_threshold, alert_callbacks>>
    /\ UNCHANGED <<concVars, orchVars>>

NextDrift ==
    \/ \E t \in Tools :
          reliability_threshold \in Thresholds /\ RelRegisterTool(t)
    \/ \E r \in Reports :
          reliability_threshold \in Thresholds
          /\ RelRecordExecution(r[1], r[2], r[3])
    \/ \E k \in CallbackKinds :
          reliability_threshold \in Thresholds /\ RelAddAlertCallback(k)
    \/ \E success \in BOOLEAN : TestRecordExecution(success)

SpecDrift == InitDrift /\ [][NextDrift]_vars

---------------------------------------------------------------------------
(* The monitor given response times that are not whole seconds: one tool   *)
(* is registered and reported on up to MaxReports times, each report taking *)
(* one of FineTimes.  The products of the update are rounded from the       *)
(* first report on.                                                         *)
(*   trace   tool name -> the largest response time reported for it so far  *)

MaxReports == 13
\* 0.5 and 1.5 thousandths of a second when Scale is 10^4
FineTimes == {5, 15}

InitTimes ==
    /\ reliability_threshold = TestThreshold
    /\ tool_metrics = <<>>
    /\ tool_order = <<>>
    /\ alert_callbacks = <<>>
    /\ delivered = <<>>
    /\ obs = 0
    /\ lastOp = [op |-> "init"]
    /\ InitConcIdle
    /\ config = DefaultConfig
    /\ constraints = <<>>
    /\ violation_log = <<>>
    /\ simulation_history = <<>>
    /\ execution_log = <<>>
    /\ active_executions = {}
    /\ pc = "idle"
    /\ plan = None
    /\ approval_callback = None
    /\ step_executor = None
    /\ result = None
    /\ best_simulation = <<>>
    /\ engine = IdleEngine
    /\ trace = <<>>
    /\ entry = None
    /\ returns = <<>>

TimesFrame ==
    UNCHANGED <<reliability_threshold, alert_callbacks, concVars, config,
                constraints,
                violation_log, simulation_history, execution_log,
                active_executions, pc, plan, approval_callback, step_executor,
                result, best_simulation, engine, entry, returns>>

TimesRegisterTool ==
    /\ obs < MaxReports
    /\ LET r == register_tool(tool_metrics, tool_order, TestTool)
       IN  /\ tool_metrics' = r.metrics
           /\ tool_order' = r.order
    /\ obs' = obs + 1
    /\ lastOp' = [op |-> "register_tool", tool |-> TestTool]
    /\ UNCHANGED <<delivered, trace>>
    /\ TimesFrame

TimesRecordExecution(success, rt) ==
    /\ obs < MaxReports
    /\ LET r == record_execution(tool_metrics, tool_order, alert_callbacks,
                                 reliability_threshold, TestTool, success, rt)
       IN  /\ tool_metrics' = r.metrics
           /\ tool_order' = r.order
           /\ delivered' = r.delivered
           /\ lastOp' = [op |-> "record_execution", tool |-> TestTool,
                         success |-> success, raised |-> r.raised,
                         alerts |-> r.alerts]
    /\ trace' = Put(trace, TestTool,
                    IF TestTool \in DOMAIN trace /\ trace[TestTool] > rt
                    THEN trace[TestTool] ELSE rt)
    /\ obs' = obs + 1
    /\ TimesFrame

NextTimes ==
    \/ TimesRegisterTool
    \/ \E success \in BOOLEAN, rt \in FineTimes :
          TimesRecordExecution(success, rt)

SpecTimes == InitTimes /\ [][NextTimes]_vars

---------------------------------------------------------------------------
(* record_execution called by several threads for the same tool name.      *)
(* The method holds no lock; a thread switch can fall between any two      *)
(* attribute reads and writes, and around the calls the method makes.      *)
(* Each thread is followed through the method's reads and writes:          *)
(*   check      34  if tool_name not in self.tool_metrics                  *)
(*   register   35  self.register_tool(tool_name)                          *)
(*   load       37  tool = self.tool_metrics[tool_name]                    *)
(*   rate_read, rate_write   41  tool.success_rate = ... tool.success_rate *)
(*   time_read, time_write   44  tool.avg_response_time = ...              *)
(*   fail_read, fail_write   46-48  tool.failure_count += 1; last_failure  *)
(*   drift      51-57  the two threshold checks                            *)
(* tref[t] = 0 names the object tool_metrics holds, k > 0 names orphans[k],*)
(* an object a later register_tool displaced from the dict.                *)

Threads == 1..NThreads
ConcTool == "a"
NoRef == -1
\* each thread reports a response time of its own, in seconds
ThreadTime(t) == Seconds(10 * t)

ObjOf(t) == IF tref[t] = 0 THEN tool_metrics[ConcTool] ELSE orphans[tref[t]]

\* the variables after thread t's object is replaced by h
WriteObj(t, h) ==
    IF tref[t] = 0
    THEN /\ tool_metrics' = [tool_metrics EXCEPT ![ConcTool] = h]
         /\ orphans' = orphans
    ELSE /\ orphans' = [orphans EXCEPT ![tref[t]] = h]
         /\ tool_metrics' = tool_metrics

InitConc ==
    /\ reliability_threshold \in Thresholds
    /\ \E pre \in BOOLEAN :
          LET r == IF pre THEN register_tool(<<>>, <<>>, ConcTool)
                   ELSE [metrics |-> <<>>, order |-> <<>>]
          IN  tool_metrics = r.metrics /\ tool_order = r.order
    /\ alert_callbacks = <<>>
    /\ delivered = <<>>
    /\ obs = 0
    /\ lastOp = [op |-> "init"]
    /\ tpc = [t \in Threads |-> "check"]
    /\ \E succ \in [Threads -> BOOLEAN] :
          targ = [t \in Threads |->
                    [success |-> succ[t], response_time |-> ThreadTime(t)]]
    /\ tref = [t \in Threads |-> NoRef]
    /\ treg = [t \in Threads |-> NoRef]
    /\ orphans = <<>>
    /\ InitOrchIdle

ConcFrame == UNCHANGED <<reliability_threshold, alert_callbacks, delivered, obs,
                         lastOp, targ, orchVars>>

Goto(t, l) == tpc' = [tpc EXCEPT ![t] = l]

ConcCheck(t) ==
    /\ tpc[t] = "check"
    /\ Goto(t, IF ConcTool \in DOMAIN tool_metrics THEN "load" ELSE "register")
    /\ UNCHANGED <<tool_metrics, tool_order, tref, treg, orphans>>
    /\ ConcFrame

ConcRegister(t) ==
    /\ tpc[t] = "register"
    /\ LET r == register_tool(tool_metrics, tool_order, ConcTool)
       IN  /\ tool_metrics' = r.metrics
           /\ tool_order' = r.order
    /\ IF ConcTool \in DOMAIN tool_metrics
       THEN /\ orphans' = Append(orphans, tool_metrics[ConcTool])
            /\ tref' = [u \in Threads |->
                          IF tref[u] = 0 THEN Len(orphans) + 1 ELSE tref[u]]
       ELSE UNCHANGED <<orphans, tref>>
    /\ Goto(t, "load")
    /\ UNCHANGED treg
    /\ ConcFrame

ConcLoad(t) ==
    /\ tpc[t] = "load"
    /\ tref' = [tref EXCEPT ![t] = 0]
    /\ Goto(t, "rate_read")
    /\ UNCHANGED <<tool_metrics, tool_order, treg, orphans>>
    /\ ConcFrame

ConcRateRead(t) ==
    /\ tpc[t] = "rate_read"
    /\ treg' = [treg EXCEPT ![t] = ObjOf(t).success_rate]
    /\ Goto(t, "rate_write")
    /\ UNCHANGED <<tool_metrics, tool_order, tref, orphans>>
    /\ ConcFrame

ConcRateWrite(t) ==
    /\ tpc[t] = "rate_write"
    /\ WriteObj(t, [ObjOf(t) EXCEPT !.success_rate =
                      EMA(IF targ[t].success THEN Scale ELSE 0, treg[t])])
    /\ Goto(t, "time_read")
    /\ UNCHANGED <<tool_order, tref, treg>>
    /\ ConcFrame

ConcTimeRead(t) ==
    /\ tpc[t] = "time_read"
    /\ treg' = [treg EXCEPT ![t] = ObjOf(t).avg_response_time]
    /\ Goto(t, "time_write")
    /\ UNCHANGED <<tool_metrics, tool_order, tref, orphans>>
    /\ ConcFrame

ConcTimeWrite(t) ==
    /\ tpc[t] = "time_write"
    /\ WriteObj(t, [ObjOf(t) EXCEPT !.avg_response_time =
                      EMA(targ[t].response_time, treg[t])])
    /\ Goto(t, IF targ[t].success THEN "drift" ELSE "fail_read")
    /\ UNCHANGED <<tool_order, tref, treg>>
    /\ ConcFrame

ConcFailRead(t) ==
    /\ tpc[t] = "fail_read"
    /\ treg' = [treg EXCEPT ![t] = ObjOf(t).failure_count]
    /\ Goto(t, "fail_write")
    /\ UNCHANGED <<tool_metrics, tool_order, tref, orphans>>
    /\ ConcFrame

ConcFailWrite(t) ==
    /\ tpc[t] = "fail_write"
    /\ WriteObj(t, [ObjOf(t) EXCEPT !.failure_count = treg[t] + 1,
                                    !.last_failure = "now"])
    /\ Goto(t, "drift")
    /\ UNCHANGED <<tool_order, tref, treg>>
    /\ ConcFrame

\* no alert callback is registered here, so _trigger_alert changes nothing
ConcDrift(t) ==
    /\ tpc[t] = "drift"
    /\ WriteObj(t, [ObjOf(t) EXCEPT !.drift_detected =
                      DriftAfter(ObjOf(t), ObjOf(t).success_rate,
                                 reliability_threshold)])
    /\ Goto(t, "done")
    /\ treg' = [treg EXCEPT ![t] = NoRef]
    /\ UNCHANGED <<tool_order, tref>>
    /\ ConcFrame

NextConc ==
    \E t \in Threads :
        \/ ConcCheck(t)
        \/ ConcRegister(t)
        \/ ConcLoad(t)
        \/ ConcRateRead(t)
        \/ ConcRateWrite(t)
        \/ ConcTimeRead(t)
        \/ ConcTimeWrite(t)
        \/ ConcFailRead(t)
        \/ ConcFailWrite(t)
        \/ ConcDrift(t)

SpecConc == InitConc /\ [][NextConc]_vars

\* the health record left by the calls of `todo` made one after the other,
\* in every order, starting from record h
RECURSIVE SequentialOutcomes(_, _)
SequentialOutcomes(h, todo) ==
    IF todo = {} THEN {h}
    ELSE UNION { SequentialOutcomes(
                     UpdatedHealth(h, targ[t].success, targ[t].response_time,
                                   reliability_threshold), todo \ {t})
                 : t \in todo }

AllDone == \A t \in Threads : tpc[t] = "done"

FailedReports == Cardinality({t \in Threads : ~targ[t].success})


---------------------------------------------------------------------------
(* The agents of the pipeline, as the functions they compute *)

\* one check of validate_plan: the violation it adds, if any
CheckOf(cons, p, key) ==
    CASE key = "time_limit" ->
            IF p.estimated_time > cons[key] THEN <<"Time violation">> ELSE <<>>
      [] key = "budget" ->
            IF p.estimated_cost > cons[key] THEN <<"Budget violation">> ELSE <<>>
      [] key = "permissions" ->
            IF p.required_permissions \ cons[key] # {}
            THEN <<"Permission violation">> ELSE <<>>

RECURSIVE ChecksInOrder(_, _, _)
ChecksInOrder(cons, p, keys) ==
    IF keys = <<>> THEN <<>>
    ELSE CheckOf(cons, p, Head(keys)) \o ChecksInOrder(cons, p, Tail(keys))

\* the checks made in the order the constraints were supplied (held in entry)
validate_plan_in_supply_order(cons, p) ==
    LET violations == ChecksInOrder(cons, p, entry)
    IN  [valid |-> Len(violations) = 0, violations |-> violations]

\* ConstraintReasoningAgent.validate_plan: the violations, in the order
\* time, budget, permissions; each is named by the words its message starts with
validate_plan(cons, p) ==
    LET time == IF "time_limit" \in DOMAIN cons
                   /\ p.estimated_time > cons["time_limit"]
                THEN <<"Time violation">> ELSE <<>>
        budget == IF "budget" \in DOMAIN cons
                     /\ p.estimated_cost > cons["budget"]
                  THEN <<"Budget violation">> ELSE <<>>
        perms == IF "permissions" \in DOMAIN cons
                    /\ p.required_permissions \ cons["permissions"] # {}
                 THEN <<"Permission violation">> ELSE <<>>
        violations == time \o budget \o perms
    IN  [valid |-> Len(violations) = 0, violations |-> violations]

suggest_modifications_newest_first(violations) ==
    [i \in 1..Len(violations) |->
        LET v == violations[Len(violations) + 1 - i]
        IN  CASE v = "Time violation" -> "reduce_scope"
              [] v = "Budget violation" -> "optimize_cost"
              [] v = "Permission violation" -> "request_permissions"]

\* suggest_modifications: one modification per violation it recognises
suggest_modifications(violations) ==
    [i \in 1..Len(violations) |->
        CASE violations[i] = "Time violation" -> "reduce_scope"
          [] violations[i] = "Budget violation" -> "optimize_cost"
          [] violations[i] = "Permission violation" -> "request_permissions"]

\* StrategicScenarioSimulator._identify_failure_modes
identify_failure_modes(p, risk) ==
    (IF risk \in {"high", "critical"}
     THEN <<"API rate limiting exceeded", "External service downtime",
            "Data quality degradation">> ELSE <<>>)
    \o (IF risk \in {"medium", "high"}
        THEN <<"Timeout due to network latency", "Partial data retrieval">>
        ELSE <<>>)
    \o (IF p.estimated_time > 3600
        THEN <<"Long-running task interruption risk">> ELSE <<>>)
    \o (IF Len(p.steps) > 10
        THEN <<"Complex workflow coordination failure">> ELSE <<>>)

simulate_paths_first_recommended(p, num_paths) ==
    [k \in 1..num_paths |->
        LET i == k - 1
            prob == IF i = 0 THEN 85 ELSE IF i = 1 THEN 65 ELSE 40
            risk == IF i = 0 THEN "low" ELSE IF i = 1 THEN "medium" ELSE "high"
        IN  [path_id |-> <<p.id, i>>,
             success_probability |-> prob,
             risk_level |-> risk,
             failure_modes |-> identify_failure_modes(p, risk),
             recommended |-> (i = 0)]]

\* StrategicScenarioSimulator.simulate_paths: path i (from 0) is optimistic for
\* i = 0, realistic for i = 1 and pessimistic otherwise
simulate_paths(p, num_paths) ==
    [k \in 1..num_paths |->
        LET i == k - 1
            prob == IF i = 0 THEN 85 ELSE IF i = 1 THEN 65 ELSE 40
            risk == IF i = 0 THEN "low" ELSE IF i = 1 THEN "medium" ELSE "high"
        IN  [path_id |-> <<p.id, i>>,
             success_probability |-> prob,
             risk_level |-> risk,
             failure_modes |-> identify_failure_modes(p, risk),
             recommended |-> (i = 1)]]

\* the projection marked recommended, the first one when none is
BestSimulationRecommended(sims) ==
    IF \E k \in 1..Len(sims) : sims[k].recommended
    THEN sims[CHOOSE k \in 1..Len(sims) : sims[k].recommended]
    ELSE sims[1]

\* max(simulations, key=lambda s: s.success_probability): the first of the
\* projections with the largest probability
BestSimulation(sims) ==
    LET best == CHOOSE k \in 1..Len(sims) :
                  /\ \A j \in 1..Len(sims) :
                        sims[j].success_probability <= sims[k].success_probability
                  /\ \A j \in 1..(k - 1) :
                        sims[j].success_probability < sims[k].success_probability
    IN  sims[best]

should_request_approval_ignores_cost(p, sim) ==
    \/ sim.risk_level \in {"high", "critical"}
    \/ p.estimated_time > 7200
    \/ sim.success_probability < 50

should_request_approval_at_limit(p, sim) ==
    \/ sim.risk_level \in {"high", "critical"}
    \/ p.estimated_cost >= 50
    \/ p.estimated_time > 7200
    \/ sim.success_probability < 50

\* HumanInLoopAgent.should_request_approval
should_request_approval(p, sim) ==
    \/ sim.risk_level \in {"high", "critical"}
    \/ p.estimated_cost > 50
    \/ p.estimated_time > 7200
    \/ sim.success_probability < 50

select_approver(risk) ==
    IF risk = "critical" THEN "senior_engineer"
    ELSE IF risk = "high" THEN "team_lead" ELSE "any_engineer"

create_approval_request_all_risks(p, sim) ==
    LET urgency == IF sim.risk_level = "critical" THEN "high" ELSE "medium"
    IN  [decision_id |-> p.id,
         key_risks |-> sim.failure_modes,
         risk_level |-> sim.risk_level,
         recommended_approver |-> select_approver(sim.risk_level),
         urgency |-> urgency,
         timeout |-> IF urgency = "high" THEN 300 ELSE 1800]

\* HumanInLoopAgent.create_approval_request
create_approval_request(p, sim) ==
    LET urgency == IF sim.risk_level = "critical" THEN "high" ELSE "medium"
    IN  [decision_id |-> p.id,
         key_risks |-> SubSeq(sim.failure_modes, 1,
                              IF Len(sim.failure_modes) < 3
                              THEN Len(sim.failure_modes) ELSE 3),
         risk_level |-> sim.risk_level,
         recommended_approver |-> select_approver(sim.risk_level),
         urgency |-> urgency,
         timeout |-> IF urgency = "high" THEN 300 ELSE 1800]


---------------------------------------------------------------------------
(* TetherOrchestrator.execute_plan with the ExecutionEngine it runs.        *)
(* One call runs at a time; pc is the stage the call has reached.  The      *)
(* approval callback, the step executor, the alert callbacks and the        *)
(* database are the caller's code: each may return or raise.                *)

DefaultThreshold == 85

AllowedKeys == {"time_limit", "budget", "permissions", "regulations"}

\* the constraint maps an orchestrator is constructed with
ConstraintSets ==
    { [time_limit |-> 3600, budget |-> 100, permissions |-> {"read", "write"}],
      [time_limit |-> 3600, budget |-> 50, permissions |-> {"read", "write"}] }

\* __init__: a Constraint under the same key for each supplied key it knows
ConstraintObjects(supplied) ==
    [k \in DOMAIN supplied \cap AllowedKeys |-> supplied[k]]

\* the plans submitted: one within every limit, one that costs more than the
\* approval gate lets through, one that breaks the constraints
Plans ==
    { [id |-> "p1", estimated_time |-> 1800, estimated_cost |-> 25,
       required_permissions |-> {"read"}, steps |-> <<"a">>],
      [id |-> "p2", estimated_time |-> 3000, estimated_cost |-> 75,
       required_permissions |-> {"read"}, steps |-> <<"a", "b">>],
      [id |-> "p3", estimated_time |-> 7200, estimated_cost |-> 120,
       required_permissions |-> {"read", "admin"}, steps |-> <<"b">>] }

\* approval_callback: absent or a callable, which when called approves
\* (returns a truthy value), denies (a falsy one) or raises
Callbacks == {None, "callback"}
Decisions == {"approve", "deny", "raises"}
\* step_executor: absent or a callable, which returns or raises at each step
Executors == {None, "executor"}
Durations == {Seconds(0), Seconds(60)}
\* how long a call of the orchestrator's step executor takes
StepDurations == {Seconds(0), Seconds(30), Seconds(60)}

LogViolationsLatestOnly(log, plan_id, violations) ==
    IF Len(violations) > 0
    THEN <<[plan_id |-> plan_id, timestamp |-> "now", violations |-> violations]>>
    ELSE log

\* constraint_agent.py lines 57-63: a validation that found violations adds
\* one entry to the log; the timestamp is the time of the call
LogViolations(log, plan_id, violations) ==
    IF Len(violations) > 0
    THEN Append(log, [plan_id |-> plan_id, timestamp |-> "now",
                      violations |-> violations])
    ELSE log

NewResult(p) ==
    [plan_id |-> p.id, status |-> "pending", keys |-> {}, stages |-> {},
     reason |-> None, suggestions |-> <<>>,
     valid |-> FALSE, violations |-> <<>>,
     simulation |-> <<>>,
     approval |-> [required |-> FALSE, request |-> <<>>, approved |-> <<>>],
     execution |-> <<>>, recommended_simulation |-> <<>>]

LogEntry(res) ==
    [plan_id |-> res.plan_id, status |-> res.status,
     approval_required |-> res.approval.required]

\* the answer the approval callback gave to a call, if the call asked for one
DecisionOf(res, cb) ==
    IF ~res.approval.required THEN "not asked"
    ELSE IF cb = None THEN "no callback"
    ELSE IF res.approval.approved = <<TRUE>> THEN "approve"
    ELSE IF res.approval.approved = <<FALSE>> THEN "deny" ELSE "raises"

\* what a finished call was given (the plan, the callback's answer, whether
\* the engine was run and how the step executor behaved) and what it returned
CallRecord(res, raised, cb, eng) ==
    [plan_id |-> res.plan_id,
     status |-> IF raised THEN "exception" ELSE res.status,
     decision |-> DecisionOf(res, cb),
     executed |-> eng.status # "pending",
     ran |-> eng.ran,
     violations |-> res.violations,
     simulation |-> res.simulation,
     approval_required |-> res.approval.required]

\* the call ends: with `res` returned, or with an exception when raised
EndCallOf(res, raised, cb, eng) ==
    /\ result' = res
    /\ pc' = "returned"
    /\ returns' = Append(returns, CallRecord(res, raised, cb, eng))

EndCall(res, raised) == EndCallOf(res, raised, approval_callback, engine)

ValidationGateAlways(valid) == "simulate"

\* lines 126-132: an invalid plan is rejected, a valid one goes on
ValidationGate(valid) == IF valid THEN "simulate" ELSE "rejected"

ApprovalGateNoWait(needs_approval, callback) ==
    IF needs_approval /\ callback # None THEN "callback" ELSE "stage4"

ApprovalGateAlwaysAsks(needs_approval, callback) ==
    IF callback # None THEN "callback"
    ELSE IF needs_approval THEN "awaiting_approval" ELSE "stage4"

\* lines 153-178, the branch taken on the gate's answer
ApprovalGate(needs_approval, callback) ==
    IF needs_approval
    THEN IF callback # None THEN "callback" ELSE "awaiting_approval"
    ELSE "stage4"

CallbackGateIgnoresDenial(decision) ==
    IF decision = "raises" THEN "exception" ELSE "stage4"

\* lines 167-174: what follows the callback's answer
CallbackGate(decision) ==
    IF decision = "raises" THEN "exception"
    ELSE IF decision = "approve" THEN "stage4" ELSE "rejected"

\* lines 181-210
ExecutionGate(executor) == IF executor # None THEN "engine" ELSE "approved"

\* line 220: self.execution_log.append(result), the only append there is
LogAfter(log, res) == Append(log, LogEntry(res))

ExecutePlan(p, cb, ex, db_ok) ==
    /\ pc \in {"idle", "returned"}
    /\ Len(returns) < MaxCalls
    /\ ex # None => obs + 2 * Len(p.steps) <= MaxObs
    /\ plan' = p
    /\ approval_callback' = cb
    /\ step_executor' = ex
    /\ best_simulation' = <<>>
    /\ engine' = IdleEngine
    /\ trace' = <<"save_plan">>
    /\ entry' = [tool_metrics |-> tool_metrics,
                 violation_log |-> violation_log,
                 simulation_history |-> simulation_history,
                 execution_log |-> execution_log]
    /\ IF db_ok
       THEN /\ result' = NewResult(p)
            /\ pc' = "validate"
            /\ UNCHANGED returns
       ELSE EndCallOf(NewResult(p), TRUE, cb, IdleEngine)
    /\ UNCHANGED <<config, constraints, violation_log, simulation_history,
                   execution_log, active_executions>>
    /\ UNCHANGED <<relVars, concVars>>

Validate ==
    /\ pc = "validate"
    /\ LET v == validate_plan(constraints, plan)
           res == [result EXCEPT !.stages = @ \cup {"constraint_validation"},
                                 !.valid = v.valid,
                                 !.violations = v.violations]
       IN  /\ violation_log' = LogViolations(violation_log, plan.id, v.violations)
           /\ IF ValidationGate(v.valid) = "rejected"
              THEN /\ EndCall([res EXCEPT
                                 !.status = "rejected",
                                 !.reason = "Constraint violations",
                                 !.suggestions = suggest_modifications(v.violations),
                                 !.keys = @ \cup {"reason", "suggestions"}],
                              FALSE)
                   /\ trace' = trace \o <<"validate_plan", "suggest_modifications">>
              ELSE /\ result' = res
                   /\ pc' = "simulate"
                   /\ trace' = Append(trace, "validate_plan")
                   /\ UNCHANGED returns
    /\ UNCHANGED <<config, constraints, simulation_history, execution_log,
                   active_executions, plan, approval_callback, step_executor,
                   best_simulation, engine, entry>>
    /\ UNCHANGED <<relVars, concVars>>

Simulate ==
    /\ pc = "simulate"
    /\ LET sims == simulate_paths(plan, config.num_paths)
           best == BestSimulation(sims)
       IN  /\ simulation_history' =
                 Append(simulation_history, [plan_id |-> plan.id, results |-> sims])
           /\ best_simulation' = <<best>>
           /\ result' = [result EXCEPT
                 !.stages = @ \cup {"simulation"},
                 !.simulation = <<[paths_explored |-> Len(sims),
                                   recommended_path |-> best.path_id,
                                   success_probability |-> best.success_probability,
                                   risk_level |-> best.risk_level]>>]
    /\ pc' = "approval"
    /\ trace' = Append(trace, "simulate_paths")
    /\ UNCHANGED <<config, constraints, violation_log, execution_log, active_executions,
                   plan, approval_callback, step_executor, engine, entry, returns>>
    /\ UNCHANGED <<relVars, concVars>>

ApprovalCheck ==
    /\ pc = "approval"
    /\ LET needs == should_request_approval(plan, best_simulation[1])
           next == ApprovalGate(needs, approval_callback)
           res == [result EXCEPT
                     !.stages = @ \cup {"approval"},
                     !.approval.required = needs,
                     !.approval.request =
                         IF needs
                         THEN <<create_approval_request(plan, best_simulation[1])>>
                         ELSE <<>>]
       IN  /\ trace' = IF needs
                       THEN trace \o <<"should_request_approval",
                                       "create_approval_request">>
                       ELSE Append(trace, "should_request_approval")
           /\ IF next = "awaiting_approval"
              THEN EndCall([res EXCEPT !.status = "awaiting_approval"], FALSE)
              ELSE /\ result' = res
                   /\ pc' = next
                   /\ UNCHANGED returns
    /\ UNCHANGED <<config, constraints, violation_log, simulation_history, execution_log,
                   active_executions, plan, approval_callback, step_executor,
                   best_simulation, engine, entry>>
    /\ UNCHANGED <<relVars, concVars>>

ApprovalCallback(decision) ==
    /\ pc = "callback"
    /\ trace' = trace \o <<"approval_callback", decision>>
    /\ LET next == CallbackGate(decision)
       IN  CASE next = "exception" -> EndCall(result, TRUE)
             [] next = "rejected" ->
                  EndCall([result EXCEPT
                             !.approval.approved = <<FALSE>>,
                             !.status = "rejected",
                             !.reason = "Human approval denied",
                             !.keys = @ \cup {"reason"}], FALSE)
             [] OTHER ->
                  /\ result' = [result EXCEPT !.approval.approved = <<TRUE>>]
                  /\ pc' = next
                  /\ UNCHANGED returns
    /\ UNCHANGED <<config, constraints, violation_log, simulation_history, execution_log,
                   active_executions, plan, approval_callback, step_executor,
                   best_simulation, engine, entry>>
    /\ UNCHANGED <<relVars, concVars>>

RecommendedSimulation ==
    <<[path_id |-> best_simulation[1].path_id,
       success_probability |-> best_simulation[1].success_probability,
       risk_level |-> best_simulation[1].risk_level]>>

\* line 180: the plan has passed the gate
Stage4 ==
    /\ pc = "stage4"
    /\ IF ExecutionGate(step_executor) = "engine"
       THEN /\ engine' = [status |-> "executing", steps_completed |-> 0,
                          steps_total |-> Len(plan.steps), error |-> None,
                          i |-> 1, ran |-> <<>>]
            /\ active_executions' = active_executions \cup {plan.id}
            /\ pc' = "engine"
            /\ trace' = Append(trace, "engine.execute_plan")
            /\ UNCHANGED <<result, returns, execution_log>>
       ELSE LET res == [result EXCEPT
                          !.status = "approved",
                          !.keys = @ \cup {"ready_for_execution",
                                           "recommended_simulation"},
                          !.recommended_simulation = RecommendedSimulation]
            IN  /\ execution_log' = LogAfter(execution_log, res)
                /\ EndCall(res, FALSE)
                /\ UNCHANGED <<engine, active_executions, trace>>
    /\ UNCHANGED <<config, constraints, violation_log, simulation_history, plan,
                   approval_callback, step_executor, best_simulation, entry>>
    /\ UNCHANGED <<relVars, concVars>>

\* ExecutionEngine.execute_plan, one turn of its loop (lines 57-90): the step
\* executor returns (ok) or raises, after `duration` seconds
EngineStep(ok, duration) ==
    /\ pc = "engine"
    /\ engine.i <= Len(plan.steps)
    /\ LET tool == plan.steps[engine.i]
           r1 == record_execution(tool_metrics, tool_order, alert_callbacks,
                                  reliability_threshold, tool, ok, duration)
           \* the report of a success raised: the handler reports a failure
           r2 == record_execution(r1.metrics, r1.order, alert_callbacks,
                                  reliability_threshold, tool, FALSE, duration)
           again == ok /\ r1.raised
           last == IF again THEN r2 ELSE r1
       IN  /\ tool_metrics' = last.metrics
           /\ tool_order' = last.order
           /\ delivered' = last.delivered
           /\ obs' = IF again THEN obs + 2 ELSE obs + 1
           /\ lastOp' = [op |-> "record_execution", tool |-> tool,
                         success |-> ok /\ ~again, raised |-> last.raised]
           /\ trace' = trace \o (IF ok THEN <<"step_ok">> ELSE <<"step_raise">>)
                             \o (IF ok THEN <<"report_success">> ELSE <<>>)
                             \o (IF ~ok \/ again THEN <<"report_failure">> ELSE <<>>)
           /\ IF ok /\ ~r1.raised
              THEN /\ engine' = [engine EXCEPT
                                   !.steps_completed = @ + 1,
                                   !.i = @ + 1,
                                   !.ran = Append(@, [ok |-> ok,
                                                      duration |-> duration])]
                   /\ pc' = "engine"
                   /\ UNCHANGED active_executions
              ELSE /\ engine' = [engine EXCEPT
                                   !.status = "failed",
                                   \* str(e): of the latest exception, that
                                   \* of the report when the report raised
                                   !.error = IF ok \/ last.raised
                                             THEN "alert callback"
                                             ELSE "step",
                                   !.ran = Append(@, [ok |-> ok,
                                                      duration |-> duration])]
                   /\ pc' = "save_execution"
                   /\ active_executions' = active_executions \ {plan.id}
    /\ UNCHANGED <<reliability_threshold, alert_callbacks>>
    /\ UNCHANGED <<config, constraints, violation_log, simulation_history, execution_log,
                   plan, approval_callback, step_executor, result,
                   best_simulation, entry, returns>>
    /\ UNCHANGED concVars

\* lines 92-96 and 105: the loop ran to its end
EngineComplete ==
    /\ pc = "engine"
    /\ engine.i > Len(plan.steps)
    /\ engine' = [engine EXCEPT !.status = "completed"]
    /\ active_executions' = active_executions \ {plan.id}
    /\ pc' = "save_execution"
    /\ UNCHANGED <<config, constraints, violation_log, simulation_history, execution_log,
                   plan, approval_callback, step_executor, result,
                   best_simulation, trace, entry, returns>>
    /\ UNCHANGED <<relVars, concVars>>

\* core.py lines 186-222
SaveExecution(db_ok) ==
    /\ pc = "save_execution"
    /\ trace' = Append(trace, "save_execution")
    /\ IF db_ok
       THEN LET res == [result EXCEPT
                          !.execution = <<[status |-> engine.status,
                                           steps_completed |-> engine.steps_completed,
                                           error |-> engine.error]>>,
                          !.status = engine.status,
                          !.keys = @ \cup {"execution", "recommended_simulation"},
                          !.recommended_simulation = RecommendedSimulation]
            IN  /\ execution_log' = LogAfter(execution_log, res)
                /\ EndCall(res, FALSE)
       ELSE /\ EndCall(result, TRUE)
            /\ UNCHANGED execution_log
    /\ UNCHANGED <<config, constraints, violation_log, simulation_history,
                   active_executions, plan, approval_callback, step_executor,
                   best_simulation, engine, entry>>
    /\ UNCHANGED <<relVars, concVars>>

\* orchestrator.reliability_agent.add_alert_callback(...), while the
\* orchestrator is being set up
AddAlertCallback(kind) ==
    /\ pc = "idle"
    /\ obs < MaxObs
    /\ Len(alert_callbacks) < MaxCallbacks
    /\ alert_callbacks' = Append(alert_callbacks, kind)
    /\ obs' = obs + 1
    /\ UNCHANGED <<reliability_threshold, tool_metrics, tool_order, delivered,
                   lastOp>>
    /\ UNCHANGED <<concVars, orchVars>>

Init ==
    /\ reliability_threshold = DefaultThreshold
    /\ tool_metrics = <<>>
    /\ tool_order = <<>>
    /\ alert_callbacks = <<>>
    /\ delivered = <<>>
    /\ obs = 0
    /\ lastOp = [op |-> "init"]
    /\ InitConcIdle
    /\ config = DefaultConfig
    /\ \E supplied \in ConstraintSets : constraints = ConstraintObjects(supplied)
    /\ violation_log = <<>>
    /\ simulation_history = <<>>
    /\ execution_log = <<>>
    /\ active_executions = {}
    /\ pc = "idle"
    /\ plan = None
    /\ approval_callback = None
    /\ step_executor = None
    /\ result = None
    /\ best_simulation = <<>>
    /\ engine = IdleEngine
    /\ trace = <<>>
    /\ entry = None
    /\ returns = <<>>

Next ==
    \/ \E p \in Plans, cb \in Callbacks, ex \in Executors, db_ok \in BOOLEAN :
           ExecutePlan(p, cb, ex, db_ok)
    \/ Validate
    \/ Simulate
    \/ ApprovalCheck
    \/ \E d \in Decisions : ApprovalCallback(d)
    \/ Stage4
    \/ \E ok \in BOOLEAN, d \in StepDurations : EngineStep(ok, d)
    \/ EngineComplete
    \/ \E db_ok \in BOOLEAN : SaveExecution(db_ok)
    \/ \E k \in CallbackKinds : AddAlertCallback(k)

Spec == Init /\ [][Next]_vars


---------------------------------------------------------------------------
(* ExecutionEngine of src/executor.py: execute(plan) runs the steps through *)
(* registered handlers; cancel_execution(plan_id) is called by another      *)
(* thread.  The variables of the orchestrator are used for the engine:      *)
(*   plan               the plan given to execute                           *)
(*   result             the ExecutionResult, the object active_executions   *)
(*                      holds under plan.id while the run lasts             *)
(*   engine.i           the index of the step the for loop is at (from 1)   *)
(*   pc                 loop, handler, check (line 165), mark (line 166),   *)
(*                      finally (lines 175-186), returned                   *)
(*   trace              the steps visited, handlers invoked, reports made   *)
(*                      and cancel_execution calls, in order                *)
(* A thread switch can fall between the read of result.status at line 165   *)
(* and the store at line 166, and before or after any handler.              *)

MaxSteps == 2

\* self.step_handlers: the three default handlers and one registered for 'a'
step_handlers == {"wait", "log", "validate", "a"}

\* a step: its action, its 'tool' key if it has one, its 'critical' flag;
\* the 'tool' key of a step without a handler is never read
StepKinds ==
    {k \in [action : {"a", "nope"}, tool : {<<>>, <<"a">>}, critical : BOOLEAN] :
        k.action = "nope" => k.tool = <<>>}

ToolSteps(steps) == Cardinality({i \in DOMAIN steps : steps[i].tool # <<>>})

\* the plans given to execute; each step may report twice
ExecPlans ==
    {[id |-> "p", steps |-> st] :
        st \in {x \in UNION {[1..n -> StepKinds] : n \in 1..MaxSteps} :
                   2 * ToolSteps(x) <= MaxObs}}

\* the alert callbacks registered on the monitor the engine was built with
ExecCallbacks == {<<>>, <<"raises">>}

Event(ev, step, ok, tool) == [ev |-> ev, step |-> step, ok |-> ok, tool |-> tool]

InitExec ==
    /\ reliability_threshold \in Thresholds
    /\ tool_metrics = <<>>
    /\ tool_order = <<>>
    /\ alert_callbacks \in ExecCallbacks
    /\ delivered = <<>>
    /\ obs = 0
    /\ lastOp = [op |-> "init"]
    /\ InitConcIdle
    /\ InitOrchIdle

ExecFrame == UNCHANGED <<config, constraints, violation_log, simulation_history,
                         execution_log, approval_callback, step_executor,
                         best_simulation, entry, concVars>>

\* lines 86-104
Execute(p) ==
    /\ pc = "idle"
    /\ plan' = p
    /\ result' = [plan_id |-> p.id, status |-> "running", steps_completed |-> 0,
                  total_steps |-> Len(p.steps), errors |-> <<>>, output |-> {}]
    /\ active_executions' = active_executions \cup {p.id}
    /\ engine' = [IdleEngine EXCEPT !.i = 1]
    /\ pc' = "loop"
    /\ UNCHANGED <<trace, returns, relVars>>
    /\ ExecFrame

NextStepStays(i) == i

\* for i, step in enumerate(plan.steps)
NextStep(i) == i + 1

\* lines 107-122: the loop takes the next step and looks its handler up
ExecResolve ==
    /\ pc = "loop"
    /\ engine.i <= Len(plan.steps)
    /\ LET step == plan.steps[engine.i]
       IN  IF step.action \in step_handlers
           THEN /\ pc' = "handler"
                /\ trace' = trace \o <<Event("step", engine.i, TRUE, step.action),
                                       Event("handler", engine.i, TRUE, step.action)>>
                /\ UNCHANGED <<result, engine>>
           ELSE /\ result' = [result EXCEPT !.errors =
                                 Append(@, [kind |-> "no_handler", step |-> engine.i])]
                /\ engine' = [engine EXCEPT !.i = NextStep(@)]
                /\ pc' = "loop"
                /\ trace' = Append(trace, Event("step", engine.i, FALSE, step.action))
    /\ UNCHANGED <<plan, active_executions, returns, relVars>>
    /\ ExecFrame

\* what follows the handler's return or exception: "next" (the loop goes on),
\* "break" (line 162) or "fatal" (an exception reached line 168)
AfterStep(critical, recorded_error, report_raised) ==
    IF report_raised THEN "fatal"
    ELSE IF recorded_error /\ critical THEN "break"
    ELSE "next"

\* lines 125-162: the handler returns (ok) or raises after `duration` seconds
ExecHandler(ok, duration) ==
    /\ pc = "handler"
    /\ LET i == engine.i
           step == plan.steps[i]
           has_tool == step.tool # <<>>
           tool == IF has_tool THEN step.tool[1] ELSE None
           \* lines 132-137, reached when the handler returned
           r1 == record_execution(tool_metrics, tool_order, alert_callbacks,
                                  reliability_threshold, tool, TRUE, duration)
           to_except == ~ok \/ (has_tool /\ r1.raised)
           m1 == IF ok /\ has_tool THEN r1
                 ELSE [metrics |-> tool_metrics, order |-> tool_order,
                       delivered |-> delivered, raised |-> FALSE]
           \* lines 152-157, in the except clause
           r2 == record_execution(m1.metrics, m1.order, alert_callbacks,
                                  reliability_threshold, tool, FALSE, duration)
           last == IF to_except /\ has_tool THEN r2 ELSE m1
           n_reports == (IF ok /\ has_tool THEN 1 ELSE 0)
                        + (IF to_except /\ has_tool THEN 1 ELSE 0)
           after == AfterStep(step.critical, to_except, last.raised)
           res1 == [result EXCEPT
                      !.steps_completed = IF ok THEN @ + 1 ELSE @,
                      !.output = IF ok THEN @ \cup {i} ELSE @,
                      !.errors = IF to_except
                                 THEN Append(@, [kind |-> "step_failed", step |-> i])
                                 ELSE @]
       IN  /\ tool_metrics' = last.metrics
           /\ tool_order' = last.order
           /\ delivered' = last.delivered
           /\ obs' = obs + n_reports
           /\ trace' = trace
                \o <<Event("handler_done", i, ok, step.action)>>
                \o (IF ok /\ has_tool
                    THEN <<Event("report", i, TRUE, tool)>> ELSE <<>>)
                \o (IF to_except /\ has_tool
                    THEN <<Event("report", i, FALSE, tool)>> ELSE <<>>)
           /\ CASE after = "fatal" ->
                     /\ result' = [res1 EXCEPT
                           !.status = "failed",
                           !.errors = Append(@, [kind |-> "fatal", step |-> i])]
                     /\ pc' = "finally"
                     /\ UNCHANGED engine
                [] after = "break" ->
                     /\ result' = [res1 EXCEPT !.status = "failed"]
                     /\ pc' = "check"
                     /\ UNCHANGED engine
                [] OTHER ->
                     /\ result' = res1
                     /\ pc' = "loop"
                     /\ engine' = [engine EXCEPT !.i = NextStep(@)]
    /\ UNCHANGED <<reliability_threshold, alert_callbacks, lastOp>>
    /\ UNCHANGED <<plan, active_executions, returns>>
    /\ ExecFrame

\* the for loop is exhausted
ExecLoopEnd ==
    /\ pc = "loop"
    /\ engine.i > Len(plan.steps)
    /\ pc' = "check"
    /\ UNCHANGED <<plan, result, active_executions, engine, trace, returns, relVars>>
    /\ ExecFrame

\* line 165: if result.status == ExecutionStatus.RUNNING
ExecCheck ==
    /\ pc = "check"
    /\ pc' = IF result.status = "running" THEN "mark" ELSE "finally"
    /\ UNCHANGED <<plan, result, active_executions, engine, trace, returns, relVars>>
    /\ ExecFrame

\* line 166: result.status = ExecutionStatus.SUCCESS
ExecMark ==
    /\ pc = "mark"
    /\ result' = [result EXCEPT !.status = "success"]
    /\ pc' = "finally"
    /\ UNCHANGED <<plan, active_executions, engine, trace, returns, relVars>>
    /\ ExecFrame

\* lines 175-188: del self.active_executions[plan.id]; return result
ExecFinally ==
    /\ pc = "finally"
    /\ active_executions' = active_executions \ {plan.id}
    /\ returns' = Append(returns, [plan_id |-> plan.id, status |-> result.status])
    /\ pc' = "returned"
    /\ UNCHANGED <<plan, result, engine, trace, relVars>>
    /\ ExecFrame

Cancelled == \E k \in 1..Len(trace) : trace[k].ev = "cancel"

\* cancel_execution(plan_id), lines 194-199, called once by another thread;
\* the event keeps what the call returned and where the run was
CancelExecution(plan_id) ==
    /\ pc # "idle"
    /\ ~Cancelled
    /\ IF plan_id \in active_executions
       THEN /\ result' = [result EXCEPT !.status = "cancelled"]
            /\ trace' = Append(trace, Event("cancel", engine.i, TRUE, pc))
       ELSE /\ trace' = Append(trace, Event("cancel", engine.i, FALSE, pc))
            /\ UNCHANGED result
    /\ UNCHANGED <<plan, active_executions, engine, pc, returns, relVars>>
    /\ ExecFrame

NextExec ==
    \/ \E p \in ExecPlans : Execute(p)
    \/ ExecResolve
    \/ \E ok \in BOOLEAN, d \in Durations : ExecHandler(ok, d)
    \/ ExecLoopEnd
    \/ ExecCheck
    \/ ExecMark
    \/ ExecFinally
    \/ CancelExecution("p")

SpecExec == InitExec /\ [][NextExec]_vars


---------------------------------------------------------------------------
(* ExecutionEngine of src/execution.py: execute_async(plan, callback)       *)
(* starts a thread that runs execute_plan(plan) and then the callback; the  *)
(* caller polls get_execution_status and blocks in wait_for_completion.     *)
(*   tpc[1]    the caller: start (thread.start() next), assign (line 179),  *)
(*             returned (execute_async has returned), waiting (inside       *)
(*             join), waited (wait_for_completion has returned)             *)
(*   pc        the worker thread: idle (not started), loop, tool (a tool    *)
(*             function is running), callback, dead                         *)
(*   engine    the worker's locals: loop index, steps_completed, errors,    *)
(*             and the callback it was given                                *)
(*   result    the ExecutionResult execute_plan returned                    *)
(*   lastOp    the last get_execution_status call and what it returned      *)

tool_registry == {"a"}

\* the callback given to execute_async: none, or one that returns, raises
\* or never returns
CompletionCallbacks == {None, "returns", "raises", "blocks"}

AsyncPlans ==
    {[id |-> "p", steps |-> st] :
        st \in UNION {[1..n -> {"a", "nope"}] : n \in 1..MaxSteps}}

ThreadAliveUntilCallback(p) == p \notin {"idle", "callback", "dead"}

\* thread.is_alive(): started, and its target has not returned or raised
ThreadAlive(p) == p \notin {"idle", "dead"}

\* lines 182-188
get_execution_status(active, plan_id, worker) ==
    IF plan_id \notin active THEN None
    ELSE IF ThreadAlive(worker) THEN "RUNNING" ELSE "COMPLETED"

\* no ExecutionResult has been built yet
NoResult == [plan_id |-> None, success |-> FALSE, steps_completed |-> 0,
             total_steps |-> 0, errors |-> <<>>]

\* engine.register_tool(name, func) for each tool, lines 54-57
InitAsync ==
    /\ reliability_threshold \in Thresholds
    /\ LET r == register_tool(<<>>, <<>>, "a")
       IN  tool_metrics = r.metrics /\ tool_order = r.order
    /\ alert_callbacks \in ExecCallbacks
    /\ delivered = <<>>
    /\ obs = 0
    /\ lastOp = [op |-> "init"]
    /\ tpc = <<"start">>
    /\ targ = <<>>
    /\ tref = <<>>
    /\ treg = <<>>
    /\ orphans = <<>>
    /\ config = DefaultConfig
    /\ constraints = <<>>
    /\ violation_log = <<>>
    /\ simulation_history = <<>>
    /\ execution_log = <<>>
    /\ active_executions = {}
    /\ pc = "idle"
    /\ plan = None
    /\ approval_callback = None
    /\ step_executor = None
    /\ result = NoResult
    /\ best_simulation = <<>>
    /\ engine = IdleEngine
    /\ trace = <<>>
    /\ entry = None
    /\ returns = <<>>

AsyncFrame == UNCHANGED <<config, constraints, violation_log, simulation_history,
                          execution_log, approval_callback, step_executor,
                          best_simulation, entry, returns,
                          targ, tref, treg, orphans>>

\* lines 171-177: thread = threading.Thread(target=_execute); thread.start()
AsyncStart(p, cb) ==
    /\ tpc[1] = "start"
    /\ plan' = p
    /\ engine' = [i |-> 1, steps_completed |-> 0, errors |-> <<>>, callback |-> cb]
    /\ pc' = "loop"
    /\ tpc' = <<"assign">>
    /\ UNCHANGED <<result, active_executions, trace, relVars>>
    /\ AsyncFrame

\* lines 179-180: self.active_executions[plan.id] = thread; return plan.id
AsyncAssign ==
    /\ tpc[1] = "assign"
    /\ active_executions' = active_executions \cup {plan.id}
    /\ tpc' = <<"returned">>
    /\ UNCHANGED <<plan, result, engine, pc, trace, relVars>>
    /\ AsyncFrame

\* execute_plan lines 77-96: the loop takes a step; an unknown action is an
\* error and the loop goes on, a known one has its tool function called
AsyncResolve ==
    /\ pc = "loop"
    /\ engine.i <= Len(plan.steps)
    /\ LET action == plan.steps[engine.i]
       IN  IF action \in tool_registry
           THEN /\ pc' = "tool"
                /\ trace' = Append(trace, Event("handler", engine.i, TRUE, action))
                /\ UNCHANGED engine
           ELSE /\ engine' = [engine EXCEPT
                                !.errors = Append(@, [kind |-> "unknown_action",
                                                      step |-> engine.i]),
                                !.i = NextStep(@)]
                /\ pc' = "loop"
                /\ UNCHANGED trace
    /\ UNCHANGED <<plan, result, active_executions, tpc, relVars>>
    /\ AsyncFrame

\* the ExecutionResult of lines 129-150
AsyncResult(p, locals) ==
    [plan_id |-> p.id,
     success |-> Len(locals.errors) = 0 /\ locals.steps_completed = Len(p.steps),
     steps_completed |-> locals.steps_completed,
     total_steps |-> Len(p.steps),
     errors |-> locals.errors]

\* execute_plan has returned: the callback is next if there is one
AfterPlan(callback) == IF callback = None THEN "dead" ELSE "callback"

\* lines 96-122: the tool function returns (ok) or raises; the finally
\* clause reports to the monitor, and an exception of the report ends the
\* loop at line 124
AsyncTool(ok, duration) ==
    /\ pc = "tool"
    /\ LET i == engine.i
           action == plan.steps[i]
           r == record_execution(tool_metrics, tool_order, alert_callbacks,
                                 reliability_threshold, action, ok, duration)
           e1 == IF ok THEN engine.errors
                 ELSE Append(engine.errors, [kind |-> "step_failed", step |-> i])
           locals == [engine EXCEPT
                        !.steps_completed = IF ok THEN @ + 1 ELSE @,
                        !.errors = IF r.raised
                                   THEN Append(e1, [kind |-> "plan_failed", step |-> i])
                                   ELSE e1]
       IN  /\ tool_metrics' = r.metrics
           /\ tool_order' = r.order
           /\ delivered' = r.delivered
           /\ obs' = obs + 1
           /\ trace' = trace \o <<Event("handler_done", i, ok, action),
                                  Event("report", i, ok, action)>>
           /\ IF r.raised
              THEN /\ engine' = locals
                   /\ result' = AsyncResult(plan, locals)
                   /\ pc' = AfterPlan(engine.callback)
              ELSE /\ engine' = [locals EXCEPT !.i = NextStep(@)]
                   /\ pc' = "loop"
                   /\ UNCHANGED result
    /\ UNCHANGED <<reliability_threshold, alert_callbacks, lastOp>>
    /\ UNCHANGED <<plan, active_executions, tpc>>
    /\ AsyncFrame

\* lines 129-158 and 172-173: the loop is over, the result is built
AsyncPlanDone ==
    /\ pc = "loop"
    /\ engine.i > Len(plan.steps)
    /\ result' = AsyncResult(plan, engine)
    /\ pc' = AfterPlan(engine.callback)
    /\ UNCHANGED <<plan, engine, active_executions, trace, tpc, relVars>>
    /\ AsyncFrame

\* line 174: callback(result) returns or raises, and the thread ends
AsyncCallback ==
    /\ pc = "callback"
    /\ engine.callback # "blocks"
    /\ trace' = Append(trace, Event("callback_done", engine.i,
                                    engine.callback = "returns", "callback"))
    /\ pc' = "dead"
    /\ UNCHANGED <<plan, result, engine, active_executions, tpc, relVars>>
    /\ AsyncFrame

\* the caller asks for the status, after execute_async has returned
GetExecutionStatus ==
    /\ tpc[1] = "returned"
    /\ lastOp' = [op |-> "get_execution_status",
                  value |-> get_execution_status(active_executions, plan.id, pc),
                  at |-> pc]
    /\ UNCHANGED <<reliability_threshold, tool_metrics, tool_order,
                   alert_callbacks, delivered, obs>>
    /\ UNCHANGED <<plan, result, engine, active_executions, pc, trace, tpc>>
    /\ AsyncFrame

\* lines 182-188 called while execute_async may not have returned yet: by
\* another thread once the worker runs, or by the completion callback
GetExecutionStatusWhileRunning(by) ==
    /\ pc # "idle"
    /\ by = "thread" => tpc[1] = "assign"
    /\ by = "callback" => pc = "callback"
    /\ lastOp' = [op |-> "concurrent get_execution_status",
                  value |-> get_execution_status(active_executions, plan.id, pc),
                  by |-> by]
    /\ UNCHANGED <<reliability_threshold, tool_metrics, tool_order,
                   alert_callbacks, delivered, obs>>
    /\ UNCHANGED <<plan, result, engine, active_executions, pc, trace, tpc>>
    /\ AsyncFrame

\* lines 190-193: wait_for_completion(plan_id) enters thread.join()
WaitForCompletion ==
    /\ tpc[1] = "returned"
    /\ tpc' = IF plan.id \in active_executions THEN <<"waiting">> ELSE <<"waited">>
    /\ UNCHANGED <<plan, result, engine, active_executions, pc, trace, relVars>>
    /\ AsyncFrame

\* join() returns once the thread is no longer alive
WaitReturn ==
    /\ tpc[1] = "waiting"
    /\ ~ThreadAlive(pc)
    /\ tpc' = <<"waited">>
    /\ UNCHANGED <<plan, result, engine, active_executions, pc, trace, relVars>>
    /\ AsyncFrame

\* the steps of the worker thread
AsyncWorker ==
    \/ AsyncResolve
    \/ \E ok \in BOOLEAN, d \in Durations : AsyncTool(ok, d)
    \/ AsyncPlanDone
    \/ AsyncCallback

NextAsync ==
    \/ \E p \in AsyncPlans, cb \in CompletionCallbacks : AsyncStart(p, cb)
    \/ AsyncAssign
    \/ AsyncResolve
    \/ \E ok \in BOOLEAN, d \in Durations : AsyncTool(ok, d)
    \/ AsyncPlanDone
    \/ AsyncCallback
    \/ GetExecutionStatus
    \/ \E by \in {"thread", "callback"} : GetExecutionStatusWhileRunning(by)
    \/ WaitForCompletion
    \/ WaitReturn

\* the worker thread is scheduled and every tool function terminates; a
\* join whose thread has ended returns
SpecAsync ==
    /\ InitAsync
    /\ [][NextAsync]_vars
    /\ WF_vars(AsyncWorker)
    /\ WF_vars(WaitReturn)

---------------------------------------------------------------------------
(* The agents called on their own: a ConstraintReasoningAgent constructed   *)
(* with the constraints of the test fixture, any subset of them supplied in *)
(* any order, a StrategicScenarioSimulator and a HumanInLoopAgent, each     *)
(* called with a plan at and around the limits.                             *)
(*   constraints   the dict the constraint agent holds                      *)
(*   entry         the keys in the order the dict was built                 *)
(*   plan          the plan the calls are given                             *)
(*   lastOp        the last call, its arguments and what it returned        *)
(*   obs           the number of calls made                                 *)

MaxAgentCalls == 1
MaxPaths == 4

\* the constraints of the fixture of tests/test_orchestrator.py
TestConstraints ==
    [time_limit |-> 3600, budget |-> 50, permissions |-> {"read", "write"}]

\* the orders in which some of the constraints can be put in the dict
SupplyOrders ==
    { o \in UNION { [1..n -> DOMAIN TestConstraints] : n \in 0..3 } :
        \A i, j \in DOMAIN o : i # j => o[i] # o[j] }

Supplied(order) == [k \in {order[i] : i \in DOMAIN order} |-> TestConstraints[k]]

AgentPlans ==
    [id : {"p"}, estimated_time : {3600, 3601, 7200, 7201},
     estimated_cost : {50, 51},
     required_permissions : {{"read"}, {"read", "admin"}},
     steps : {<<"a">>}]

\* the projections should_request_approval is given
Projections ==
    [path_id : {<<"p", 0>>}, success_probability : {49, 50, 85},
     risk_level : {"low", "medium", "high", "critical"},
     failure_modes : {<<>>}, recommended : {FALSE}]

\* the projections create_approval_request is given: every risk level, with
\* up to five failure modes
FailureModes ==
    <<"API rate limiting exceeded", "External service downtime",
      "Data quality degradation", "Timeout due to network latency",
      "Partial data retrieval">>

RequestProjections ==
    { [path_id |-> <<"p", 0>>, success_probability |-> 85, risk_level |-> risk,
       failure_modes |-> SubSeq(FailureModes, 1, n), recommended |-> FALSE] :
        risk \in {"low", "medium", "high", "critical"}, n \in {0, 2, 3, 4, 5} }

\* the violation lists suggest_modifications is given: some of the three
\* kinds, in any order
ViolationLists ==
    { [i \in DOMAIN o |->
          CASE o[i] = "time_limit" -> "Time violation"
            [] o[i] = "budget" -> "Budget violation"
            [] o[i] = "permissions" -> "Permission violation"] :
        o \in SupplyOrders }

InitAgents ==
    /\ InitRelVars
    /\ InitConcIdle
    /\ \E o \in SupplyOrders :
          /\ entry = o
          /\ constraints = Supplied(o)
    /\ config = DefaultConfig
    /\ plan \in AgentPlans
    /\ violation_log = <<>>
    /\ simulation_history = <<>>
    /\ execution_log = <<>>
    /\ active_executions = {}
    /\ pc = "idle"
    /\ approval_callback = None
    /\ step_executor = None
    /\ result = None
    /\ best_simulation = <<>>
    /\ engine = IdleEngine
    /\ trace = <<>>
    /\ returns = <<>>

AgentFrame ==
    UNCHANGED <<reliability_threshold, tool_metrics, tool_order, alert_callbacks,
                delivered, concVars, config, constraints, execution_log,
                active_executions, pc, plan, approval_callback, step_executor,
                result, best_simulation, engine, trace, entry, returns>>

\* constraint_agent.validate_plan(plan), lines 21-65
AgentValidatePlan ==
    /\ obs < MaxAgentCalls
    /\ LET r == validate_plan(constraints, plan)
       IN  /\ violation_log' = LogViolations(violation_log, plan.id, r.violations)
           /\ lastOp' = [op |-> "validate_plan", valid |-> r.valid,
                         violations |-> r.violations]
    /\ obs' = obs + 1
    /\ UNCHANGED simulation_history
    /\ AgentFrame

\* simulator.simulate_paths(plan, num_paths), lines 21-67
AgentSimulatePaths(num_paths) ==
    /\ obs < MaxAgentCalls
    /\ LET sims == simulate_paths(plan, num_paths)
       IN  /\ simulation_history' =
                 Append(simulation_history, [plan_id |-> plan.id, results |-> sims])
           /\ lastOp' = [op |-> "simulate_paths", num_paths |-> num_paths,
                         results |-> sims]
    /\ obs' = obs + 1
    /\ UNCHANGED violation_log
    /\ AgentFrame

\* human_loop_agent.should_request_approval(plan, simulation), lines 23-44
AgentShouldRequestApproval(sim) ==
    /\ obs < MaxAgentCalls
    /\ lastOp' = [op |-> "should_request_approval", simulation |-> sim,
                  needs_approval |-> should_request_approval(plan, sim)]
    /\ obs' = obs + 1
    /\ UNCHANGED <<violation_log, simulation_history>>
    /\ AgentFrame

\* human_loop_agent.create_approval_request(plan, simulation), lines 46-83
AgentCreateApprovalRequest(sim) ==
    /\ obs < MaxAgentCalls
    /\ lastOp' = [op |-> "create_approval_request", simulation |-> sim,
                  request |-> create_approval_request(plan, sim)]
    /\ obs' = obs + 1
    /\ UNCHANGED <<violation_log, simulation_history>>
    /\ AgentFrame

\* constraint_agent.suggest_modifications(plan, violations), lines 67-94
AgentSuggestModifications(violations) ==
    /\ obs < MaxAgentCalls
    /\ lastOp' = [op |-> "suggest_modifications", violations |-> violations,
                  modifications |-> suggest_modifications(violations)]
    /\ obs' = obs + 1
    /\ UNCHANGED <<violation_log, simulation_history>>
    /\ AgentFrame

NextAgents ==
    \/ AgentValidatePlan
    \/ \E n \in 1..MaxPaths : AgentSimulatePaths(n)
    \/ \E sim \in Projections : AgentShouldRequestApproval(sim)
    \/ \E sim \in RequestProjections : AgentCreateApprovalRequest(sim)
    \/ \E violations \in ViolationLists : AgentSuggestModifications(violations)

SpecAgents == InitAgents /\ [][NextAgents]_vars

---------------------------------------------------------------------------
(* The gate of a freshly constructed orchestrator: one execute_plan call    *)
(* without a step executor, on an orchestrator configured with any number   *)
(* of simulation paths and with or without a time limit, given a plan at    *)
(* or just over the thresholds of the approval gate.                        *)

GateConstraintSets ==
    ConstraintSets \cup {[budget |-> 100, permissions |-> {"read", "write"}]}

GatePlans ==
    [id : {"g"}, estimated_time : {1800, 7200, 7201},
     estimated_cost : {50, 51},
     required_permissions : {{"read"}},
     steps : {<<"a">>}]

InitGate ==
    /\ InitRelVars
    /\ InitConcIdle
    /\ config \in [num_paths : 1..MaxPaths]
    /\ \E supplied \in GateConstraintSets :
          constraints = ConstraintObjects(supplied)
    /\ violation_log = <<>>
    /\ simulation_history = <<>>
    /\ execution_log = <<>>
    /\ active_executions = {}
    /\ pc = "idle"
    /\ plan = None
    /\ approval_callback = None
    /\ step_executor = None
    /\ result = None
    /\ best_simulation = <<>>
    /\ engine = IdleEngine
    /\ trace = <<>>
    /\ entry = None
    /\ returns = <<>>

NextGate ==
    \/ \E p \in GatePlans, cb \in Callbacks :
           pc = "idle" /\ ExecutePlan(p, cb, None, TRUE)
    \/ Validate
    \/ Simulate
    \/ ApprovalCheck
    \/ \E d \in Decisions : ApprovalCallback(d)
    \/ Stage4

SpecGate == InitGate /\ [][NextGate]_vars

---------------------------------------------------------------------------
(* The two constructors of TetherOrchestrator: the one of the package       *)
(* (src/tether/core.py) and the one of the single-file module               *)
(* (src/tether.py), each given a constraints map, and a validation by the   *)
(* orchestrator that was built.                                             *)
(*   entry         the constraints map the constructor is given             *)
(*   constraints   the dict the constraint agent holds, once constructed    *)
(*   plan          the plan validated afterwards                            *)
(*   lastOp        the last call and how it ended                           *)
(*   obs           the number of calls made                                 *)

\* the values of the enum ConstraintType (models.py 11-16, tether.py 14-18)
ConstraintTypeValues == {"time", "budget", "permissions", "regulations"}

\* ConstraintType(value): the member with that value, or ValueError
ConstraintType(value) ==
    IF value \in ConstraintTypeValues THEN value ELSE "ValueError"

\* key.replace('_limit', ''), on the keys supplied
StripLimit(key) ==
    CASE key = "time_limit" -> "time"
      [] key = "rate_limit" -> "rate"
      [] OTHER -> key

SuppliedKeys == AllowedKeys \cup {"rate_limit", "max_retries"}

\* the maps a caller supplies: any of the keys, known or not
SuppliedMaps ==
    { [k \in ks |-> full[k]] :
        full \in [time_limit : {3600, 7200}, budget : {50},
                  permissions : {{"read", "write"}}, regulations : {{"gdpr"}},
                  rate_limit : {10}, max_retries : {3}],
        ks \in SUBSET SuppliedKeys }

ConstructPlans ==
    [id : {"p"}, estimated_time : {5000}, estimated_cost : {75},
     required_permissions : {{"read"}}, steps : {<<"a">>}]

InitConstruct ==
    /\ InitRelVars
    /\ InitConcIdle
    /\ entry \in SuppliedMaps
    /\ constraints = <<>>
    /\ config = DefaultConfig
    /\ plan \in ConstructPlans
    /\ violation_log = <<>>
    /\ simulation_history = <<>>
    /\ execution_log = <<>>
    /\ active_executions = {}
    /\ pc = "idle"
    /\ approval_callback = None
    /\ step_executor = None
    /\ result = None
    /\ best_simulation = <<>>
    /\ engine = IdleEngine
    /\ trace = <<>>
    /\ returns = <<>>

ConstructFrame ==
    UNCHANGED <<reliability_threshold, tool_metrics, tool_order, alert_callbacks,
                delivered, concVars, config, simulation_history, execution_log,
                active_executions, pc, plan, approval_callback, step_executor,
                result, best_simulation, engine, trace, entry, returns>>

\* src/tether/core.py lines 58-69: the type is looked up under the key
\* without '_limit', and is TIME when the lookup raises ValueError
ConstructCore ==
    /\ obs = 0
    /\ LET types == [k \in DOMAIN entry \cap AllowedKeys |->
                        IF ConstraintType(StripLimit(k)) = "ValueError"
                        THEN "time"
                        ELSE ConstraintType(StripLimit(k))]
       IN  /\ constraints' = ConstraintObjects(entry)
           /\ lastOp' = [op |-> "TetherOrchestrator", module |-> "tether/core.py",
                         raised |-> FALSE, types |-> types]
    /\ obs' = 1
    /\ UNCHANGED violation_log
    /\ ConstructFrame

\* src/tether.py lines 468-471: the type is looked up under the key itself,
\* and a ValueError of the lookup leaves the constructor
ConstructTetherPy ==
    /\ obs = 0
    /\ LET known == DOMAIN entry \cap AllowedKeys
           raised == \E k \in known : ConstraintType(k) = "ValueError"
       IN  /\ constraints' = IF raised THEN constraints
                              ELSE ConstraintObjects(entry)
           /\ lastOp' = [op |-> "TetherOrchestrator", module |-> "tether.py",
                         raised |-> raised,
                         types |-> IF raised THEN <<>>
                                   ELSE [k \in known |-> ConstraintType(k)]]
    /\ obs' = 1
    /\ UNCHANGED violation_log
    /\ ConstructFrame

\* the orchestrator that was built validates a plan
ConstructValidate ==
    /\ obs = 1
    /\ lastOp.op = "TetherOrchestrator" /\ ~lastOp.raised
    /\ LET r == validate_plan(constraints, plan)
       IN  /\ violation_log' = LogViolations(violation_log, plan.id, r.violations)
           /\ lastOp' = [op |-> "validate_plan", valid |-> r.valid,
                         violations |-> r.violations]
    /\ obs' = 2
    /\ UNCHANGED constraints
    /\ ConstructFrame

NextConstruct ==
    \/ ConstructCore
    \/ ConstructTetherPy
    \/ ConstructValidate

SpecConstruct == InitConstruct /\ [][NextConstruct]_vars

---------------------------------------------------------------------------
(* Claims about execute_plan *)

Count(seq, x) == Cardinality({i \in 1..Len(seq) : seq[i] = x})
Has(seq, x) == \E i \in 1..Len(seq) : seq[i] = x
IndexOf(seq, x) == CHOOSE i \in 1..Len(seq) : seq[i] = x

InCall == pc # "idle"
Returned == pc = "returned"
Raised == Returned /\ returns[Len(returns)].status = "exception"
StepInvoked == Has(trace, "step_ok") \/ Has(trace, "step_raise")
Reported == Has(trace, "report_success") \/ Has(trace, "report_failure")

\* C1: a step is executed only if, in the same call, validation returned valid
\* and the gate either required no approval or the callback approved; a call
\* that ends rejected or awaiting_approval invoked no step executor and made
\* no report to the reliability monitor.
C1_GatedExecution ==
    InCall =>
      /\ StepInvoked =>
            /\ "constraint_validation" \in result.stages
            /\ result.valid
            /\ "approval" \in result.stages
            /\ ~result.approval.required \/ result.approval.approved = <<TRUE>>
      /\ (Returned /\ ~Raised /\ result.status \in {"rejected", "awaiting_approval"}) =>
            /\ ~StepInvoked
            /\ ~Reported
            /\ tool_metrics = entry.tool_metrics

\* a call that needed approval, got it and ran a step
C1_Witness ==
    /\ Returned
    /\ StepInvoked
    /\ result.approval.required
    /\ result.approval.approved = <<TRUE>>

C3_CallbackDecides ==
    InCall =>
      /\ Has(trace, "deny") =>
            /\ Returned /\ ~Raised
            /\ result.status = "rejected"
            /\ result.reason = "Human approval denied"
            /\ result.approval.approved = <<FALSE>>
            /\ ~StepInvoked
            /\ ~Has(trace, "engine.execute_plan")
            /\ tool_metrics = entry.tool_metrics
      /\ Has(trace, "approve") =>
            /\ result.approval.approved = <<TRUE>>
            /\ pc \in {"stage4", "engine", "save_execution", "returned"}
            /\ (Returned /\ step_executor = None) =>
                  (~Raised /\ result.status = "approved")
            /\ (Returned /\ step_executor # None) =>
                  Has(trace, "engine.execute_plan")

C3_Witness ==
    /\ Returned
    /\ Has(trace, "deny")
    /\ step_executor # None

\* C4: with approval required and no callback supplied the call returns
\* 'awaiting_approval' with the request attached to the approval stage, executes
\* no step and does not set ready_for_execution.
C4_AwaitingApproval ==
    (InCall /\ "approval" \in result.stages /\ result.approval.required
            /\ approval_callback = None) =>
      /\ Returned /\ ~Raised
      /\ result.status = "awaiting_approval"
      /\ result.approval.request =
            <<create_approval_request(plan, best_simulation[1])>>
      /\ ~StepInvoked
      /\ ~Has(trace, "engine.execute_plan")
      /\ "ready_for_execution" \notin result.keys

C4_Witness ==
    /\ Returned
    /\ result.status = "awaiting_approval"
    /\ step_executor # None

C6_LogsEveryCall ==
    LET finished == SelectSeq(returns, LAMBDA r : r.status # "exception")
    IN  /\ Len(execution_log) = Len(finished)
        /\ \A i \in 1..Len(finished) :
              /\ execution_log[i].plan_id = finished[i].plan_id
              /\ execution_log[i].status = finished[i].status

\* C7: past the gate, with a step executor the engine runs once and the status
\* returned is the engine's: 'completed' when every step succeeded, 'failed'
\* otherwise; without one the call returns 'approved' with ready_for_execution,
\* executes no step and leaves the reliability monitor unchanged.
C7_AdoptsEngineStatus ==
    (Returned /\ ~Raised /\ result.status \in {"approved", "completed", "failed"}) =>
      IF step_executor # None
      THEN /\ Count(trace, "engine.execute_plan") = 1
           /\ result.status = engine.status
           /\ result.status = "completed" <=>
                 Count(trace, "step_ok") = Len(plan.steps)
           /\ result.status = "failed" <=> Has(trace, "step_raise")
      ELSE /\ result.status = "approved"
           /\ "ready_for_execution" \in result.keys
           /\ ~StepInvoked
           /\ tool_metrics = entry.tool_metrics

\* C8: no exception leaves execute_plan: a call in which the approval callback
\* or the persistence collaborator raises still returns a result, with status
\* 'failed'.
C8_NoExceptionEscapes ==
    \A i \in 1..Len(returns) : returns[i].status # "exception"


---------------------------------------------------------------------------
(* Claims about the reliability monitor *)

\* C9: when several threads call record_execution for the same tool name,
\* every interleaving leaves the tool's health record equal to the record
\* some sequential order of the calls produces; in particular failure_count
\* equals the number of failed reports.
C9_SequentiallyConsistent ==
    AllDone =>
        /\ tool_metrics[ConcTool] \in SequentialOutcomes(NewToolHealth, Threads)
        /\ tool_metrics[ConcTool].failure_count = FailedReports

\* C10: a record_execution call never clears a drift flag that was set, also
\* when the call raises the success rate back to the threshold or above.
C10_DriftSticky ==
    [][\A t \in Tools :
          (/\ lastOp'.op = "record_execution"
           /\ t \in DOMAIN tool_metrics
           /\ tool_metrics[t].drift_detected)
          => (t \in DOMAIN tool_metrics' /\ tool_metrics'[t].drift_detected)]_vars

\* a report has just brought a flagged tool's rate back to the threshold
C10_Witness ==
    /\ lastOp.op = "record_execution"
    /\ lastOp.success
    /\ tool_metrics[lastOp.tool].drift_detected
    /\ ~BelowThreshold(tool_metrics[lastOp.tool].success_rate,
                       reliability_threshold)


---------------------------------------------------------------------------
(* Claims about the alerts of the monitor *)

Range(seq) == {seq[i] : i \in 1..Len(seq)}

\* C11: after every record_execution, at a threshold of at most 1, each
\* tracked tool whose success rate is below the threshold has its drift flag
\* set and is listed by get_unreliable_tools; and 2 successes and 8 failures
\* on a fresh tool at threshold 0.8, in any order, leave it with a rate below
\* 0.8, flagged and listed.
C11_DriftFlagged ==
    /\ (lastOp.op = "record_execution" /\ reliability_threshold <= 100) =>
          \A t \in DOMAIN tool_metrics :
             BelowThreshold(tool_metrics[t].success_rate, reliability_threshold)
             => /\ tool_metrics[t].drift_detected
                /\ t \in Range(get_unreliable_tools(tool_metrics, tool_order,
                                                    reliability_threshold))
    /\ (reliability_threshold = TestThreshold /\ obs = TestCalls) =>
          LET h == tool_metrics[TestTool]
          IN  /\ BelowThreshold(h.success_rate + TestCalls, TestThreshold)
              /\ h.drift_detected
              /\ TestTool \in Range(get_unreliable_tools(tool_metrics, tool_order,
                                                         reliability_threshold))

\* the ten reports are in, the two successes last
C11_Witness ==
    /\ reliability_threshold = TestThreshold
    /\ obs = TestCalls
    /\ lastOp.op = "record_execution" /\ lastOp.success
    /\ tool_metrics[TestTool].failure_count = TestCalls - TestSuccesses
    /\ tool_metrics[TestTool].drift_detected

\* the alerts a report has to fire, given the record it left
AlertsDue(h, thr) ==
    (IF BelowThreshold(h.success_rate, thr)
     THEN <<[type |-> "reliability", value |-> h.success_rate]>> ELSE <<>>)
    \o (IF Degraded(h.avg_response_time)
        THEN <<[type |-> "performance", value |-> h.avg_response_time]>>
        ELSE <<>>)

\* C12: a record_execution call fires a 'reliability' alert carrying the
\* updated rate iff the updated rate is below the threshold, and a
\* 'performance' alert carrying the updated mean time iff that time exceeds
\* 5.0, each whatever the other does, the reliability alert first.
C12_AlertsMatchTriggers ==
    lastOp.op = "record_execution" =>
       lastOp.alerts = AlertsDue(tool_metrics[lastOp.tool], reliability_threshold)

\* one alert handed to each of n callbacks in registration order
RECURSIVE DeliveredToAll(_, _)
DeliveredToAll(alerts, n) ==
    IF alerts = <<>> THEN <<>>
    ELSE [i \in 1..n |-> [cb |-> i, type |-> alerts[1].type,
                          value |-> alerts[1].value]]
         \o DeliveredToAll(Tail(alerts), n)

\* C13: each alert is delivered, inside the record_execution call that fired
\* it, to every registered callback in registration order, also to the
\* callbacks registered after one that raises.
C13_EveryCallbackReceives ==
    lastOp.op = "record_execution" =>
       delivered = DeliveredToAll(lastOp.alerts, Len(alert_callbacks))

---------------------------------------------------------------------------
(* Claims about ExecutionEngine.execute and cancel_execution *)

Visited(i) == \E k \in 1..Len(trace) : trace[k].ev = "step" /\ trace[k].step = i
Invoked(i) == \E k \in 1..Len(trace) : trace[k].ev = "handler" /\ trace[k].step = i
HandlerRaised(i) ==
    \E k \in 1..Len(trace) :
       trace[k].ev = "handler_done" /\ trace[k].step = i /\ ~trace[k].ok
HandlerReturned(i) ==
    \E k \in 1..Len(trace) :
       trace[k].ev = "handler_done" /\ trace[k].step = i /\ trace[k].ok
Unresolved(i) == Visited(i) /\ plan.steps[i].action \notin step_handlers
ErrorAt(kind, i) ==
    \E k \in 1..Len(result.errors) :
       result.errors[k].kind = kind /\ result.errors[k].step = i
CancelAccepted == \E k \in 1..Len(trace) : trace[k].ev = "cancel" /\ trace[k].ok
\* the run ended failed, or cancelled after a cancellation was accepted
EndedFailed ==
    \/ result.status = "failed"
    \/ result.status = "cancelled" /\ CancelAccepted
NoLaterStep(i) == \A j \in DOMAIN plan.steps : j > i => ~Visited(j)
WentOn(i) == i < Len(plan.steps) => Visited(i + 1)

\* C14: the engine's result has status success only if its error list is
\* empty and steps_completed equals the number of steps; a run that recorded
\* an error ends failed, or cancelled if cancellation was requested.
C14_SuccessMeansNoErrors ==
    Returned =>
       /\ result.status = "success" =>
             /\ result.errors = <<>>
             /\ result.steps_completed = result.total_steps
       /\ result.errors # <<>> => EndedFailed

\* C15: a handler exception on a step not marked critical is recorded in the
\* error list and the run goes on with the next step; on a step marked
\* critical it ends the run as failed and no later step is taken up.
C15_HandlerExceptionRule ==
    Returned =>
       \A i \in DOMAIN plan.steps :
          HandlerRaised(i) =>
             IF plan.steps[i].critical
             THEN EndedFailed /\ NoLaterStep(i)
             ELSE ErrorAt("step_failed", i) /\ WentOn(i)

\* C16: a step whose action has no registered handler adds an error and the
\* run goes on with the next step, unless the step is marked critical: then
\* the run ends failed and no later step is taken up.
C16_UnresolvedActionRule ==
    Returned =>
       \A i \in DOMAIN plan.steps :
          Unresolved(i) =>
             /\ ErrorAt("no_handler", i)
             /\ IF plan.steps[i].critical
                THEN EndedFailed /\ NoLaterStep(i)
                ELSE WentOn(i)

ReportsOf(i) == {k \in 1..Len(trace) : trace[k].ev = "report" /\ trace[k].step = i}

\* C17: every step whose handler was invoked produced exactly one report to
\* the monitor, under the step's action name, with success equal to whether
\* the handler returned normally.
C17_OneReportPerStep ==
    Returned =>
       \A i \in DOMAIN plan.steps :
          Invoked(i) =>
             /\ Cardinality(ReportsOf(i)) = 1
             /\ \A k \in ReportsOf(i) :
                   /\ trace[k].tool = plan.steps[i].action
                   /\ trace[k].ok = HandlerReturned(i)

HandlerEvents == {k \in 1..Len(trace) : trace[k].ev = "handler"}

\* C18: handlers are invoked in plan order, one at a time: a handler starts
\* only after the handler of every earlier invoked step has returned or
\* raised, and no step's handler is invoked twice in a run.
C18_HandlersInPlanOrder ==
    InCall =>
       \A k1, k2 \in HandlerEvents :
          k1 < k2 =>
             /\ trace[k1].step < trace[k2].step
             /\ \E d \in (k1 + 1)..(k2 - 1) :
                   trace[d].ev = "handler_done" /\ trace[d].step = trace[k1].step

\* two steps had their handlers invoked, the first of which raised
C18_Witness ==
    /\ Returned
    /\ Invoked(1) /\ HandlerRaised(1)
    /\ Invoked(2)

\* C19: a cancel_execution call made while the plan is executing returns
\* true, and the result the run returns then has status cancelled, whatever
\* the remaining steps do.
C19_CancelledStays ==
    /\ InCall =>
          \A k \in 1..Len(trace) :
             (trace[k].ev = "cancel" /\ trace[k].tool # "returned") => trace[k].ok
    /\ (Returned /\ CancelAccepted) => result.status = "cancelled"

---------------------------------------------------------------------------
(* Claims about execute_async *)

---------------------------------------------------------------------------
(* Claims about the agents called on their own *)

TimeFails ==
    "time_limit" \in DOMAIN constraints
    /\ plan.estimated_time > constraints["time_limit"]
BudgetFails ==
    "budget" \in DOMAIN constraints
    /\ plan.estimated_cost > constraints["budget"]
PermissionsFail ==
    "permissions" \in DOMAIN constraints
    /\ \E perm \in plan.required_permissions : perm \notin constraints["permissions"]

ViolationRank(v) ==
    CASE v = "Time violation" -> 1
      [] v = "Budget violation" -> 2
      [] v = "Permission violation" -> 3

\* C21: validate_plan returns exactly one violation for each check that
\* fails and none for a check that passes or whose constraint is absent, in
\* the order time, budget, permissions whatever the order the constraints were
\* supplied in; a check fails iff the estimate is strictly over the limit or a
\* required permission is not allowed; the plan is valid iff the list is empty.
C21_ViolationsPerFailingCheck ==
    lastOp.op = "validate_plan" =>
        LET v == lastOp.violations
        IN  /\ Count(v, "Time violation") = (IF TimeFails THEN 1 ELSE 0)
            /\ Count(v, "Budget violation") = (IF BudgetFails THEN 1 ELSE 0)
            /\ Count(v, "Permission violation") = (IF PermissionsFail THEN 1 ELSE 0)
            /\ \A i \in 1..Len(v) :
                  v[i] \in {"Time violation", "Budget violation",
                            "Permission violation"}
            /\ \A i, j \in 1..Len(v) :
                  i < j => ViolationRank(v[i]) < ViolationRank(v[j])
            /\ lastOp.valid <=> (v = <<>>)

\* all three checks fail on constraints supplied permissions first, time last
C21_Witness ==
    /\ lastOp.op = "validate_plan"
    /\ entry = <<"permissions", "budget", "time_limit">>
    /\ Len(lastOp.violations) = 3

\* C22: should_request_approval answers true iff the projection's risk is high
\* or critical, or the plan's cost is over 50, or its time is over 7200 s, or
\* the success probability is under 0.5; each comparison is strict, so a cost
\* of 50, a time of 7200 and a probability of 0.5 do not ask for approval.
C22_ApprovalRule ==
    lastOp.op = "should_request_approval" =>
        (~lastOp.needs_approval <=>
            /\ lastOp.simulation.risk_level \in {"low", "medium"}
            /\ plan.estimated_cost <= 50
            /\ plan.estimated_time <= 7200
            /\ lastOp.simulation.success_probability >= 50)

\* every quantity exactly at its limit, and no approval asked for
C22_Witness ==
    /\ lastOp.op = "should_request_approval"
    /\ plan.estimated_cost = 50
    /\ plan.estimated_time = 7200
    /\ lastOp.simulation.success_probability = 50
    /\ lastOp.simulation.risk_level = "medium"
    /\ ~lastOp.needs_approval

Recommended(sims) == {k \in 1..Len(sims) : sims[k].recommended}

\* C23: simulate_paths(plan, 3) returns three projections: index 0 is 0.85 and
\* low risk, strictly the most probable; index 1 is 0.65 and medium risk;
\* index 2 is 0.40 and high risk, strictly the least probable; index 1 and no
\* other is recommended.
C23_ThreeTiers ==
    (lastOp.op = "simulate_paths" /\ lastOp.num_paths = 3) =>
        LET r == lastOp.results
        IN  /\ Len(r) = 3
            /\ r[1].success_probability = 85 /\ r[1].risk_level = "low"
            /\ r[2].success_probability = 65 /\ r[2].risk_level = "medium"
            /\ r[3].success_probability = 40 /\ r[3].risk_level = "high"
            /\ \A k \in {2, 3} : r[k].success_probability < r[1].success_probability
            /\ \A k \in {1, 2} : r[k].success_probability > r[3].success_probability
            /\ Recommended(r) = {2}

C23_Witness ==
    /\ lastOp.op = "simulate_paths"
    /\ lastOp.num_paths = 3
    /\ Len(simulation_history) > 0
    /\ plan.estimated_time > 3600

\* C24: for every path count N >= 1 simulate_paths returns N projections, of
\* which exactly one is recommended.
C24_OneRecommendedOfN ==
    lastOp.op = "simulate_paths" =>
        /\ Len(lastOp.results) = lastOp.num_paths
        /\ Cardinality(Recommended(lastOp.results)) = 1

---------------------------------------------------------------------------
(* Claims about the numbers the monitor keeps *)

C27_UnreliableTools ==
    lastOp.op = "get_unreliable_tools" =>
        LET r == lastOp.ret
        IN  /\ Range(r) = {t \in DOMAIN tool_metrics :
                              BelowThreshold(tool_metrics[t].success_rate,
                                             reliability_threshold)}
            /\ \A i, j \in 1..Len(r) :
                  i < j => IndexOf(tool_order, r[i]) < IndexOf(tool_order, r[j])

\* the query made while a flagged tool's rate is back above the threshold
C27_Witness ==
    /\ lastOp.op = "get_unreliable_tools"
    /\ \E t \in DOMAIN tool_metrics :
          /\ tool_metrics[t].drift_detected
          /\ ~BelowThreshold(tool_metrics[t].success_rate, reliability_threshold)
          /\ t \notin Range(lastOp.ret)

---------------------------------------------------------------------------
(* Claims about what execute_plan carries from one call to the next *)

\* C26: steps_completed never exceeds steps_total, and once the engine has
\* ended it equals the number of steps whose handler returned normally.
C26_CompletedCountsReturns ==
    /\ engine.steps_completed <= engine.steps_total
    /\ pc \in {"save_execution", "returned"} =>
          engine.steps_completed = Count(trace, "step_ok")

SameInputs(c, d) ==
    /\ c.plan_id = d.plan_id
    /\ c.decision = d.decision
    /\ c.executed = d.executed
    /\ c.ran = d.ran

\* C28: two calls that returned, given the same plan, the same answer of the
\* approval callback and a step executor behaving alike, return the same
\* status, violations, chosen projection and approval-required flag, whatever
\* was executed before or between them.
C28_NoCrossCallState ==
    \A i, j \in 1..Len(returns) :
        (/\ i < j
         /\ returns[i].status # "exception"
         /\ returns[j].status # "exception"
         /\ SameInputs(returns[i], returns[j]))
        => /\ returns[i].status = returns[j].status
           /\ returns[i].violations = returns[j].violations
           /\ returns[i].simulation = returns[j].simulation
           /\ returns[i].approval_required = returns[j].approval_required

\* the status a call returns when nothing but the plan, the constraints, the
\* callback's answer and the step executor's outcomes is looked at
StatusFromInputs ==
    LET v == validate_plan(constraints, plan)
        best == BestSimulation(simulate_paths(plan, NumPaths))
        needs == should_request_approval(plan, best)
    IN  IF ~v.valid THEN "rejected"
        ELSE IF needs /\ approval_callback = None THEN "awaiting_approval"
        ELSE IF needs /\ result.approval.approved = <<FALSE>> THEN "rejected"
        ELSE IF step_executor = None THEN "approved"
        ELSE IF \A k \in 1..Len(engine.ran) : engine.ran[k].ok THEN "completed"
        ELSE "failed"

\* C29: the approval-required flag and the status a call returns do not depend
\* on the state of the reliability monitor: they are what the plan, the
\* constraints, the callback's answer and the step executor's outcomes give,
\* whatever the health of the tools when the call began.
C29_IndependentOfToolHealth ==
    (Returned /\ ~Raised) =>
        /\ "approval" \in result.stages =>
              (result.approval.required <=>
                 should_request_approval(
                     plan, BestSimulation(simulate_paths(plan, NumPaths))))
        /\ result.status = StatusFromInputs

ApprovalStageWithRequest ==
    /\ "approval" \in result.stages
    /\ result.approval.required
    /\ result.approval.request # <<>>

---------------------------------------------------------------------------
(* Claims about the approval request and the suggestions *)

\* C31: the request create_approval_request builds has the projection's risk
\* level; its approver is senior_engineer for critical, team_lead for high and
\* any_engineer otherwise; its urgency and timeout are high and 300 for
\* critical, medium and 1800 otherwise; its key_risks are the projection's
\* first three failure modes in order, fewer when there are fewer.
C31_ApprovalRequest ==
    lastOp.op = "create_approval_request" =>
        LET req == lastOp.request
            sim == lastOp.simulation
            n == Len(sim.failure_modes)
        IN  /\ req.risk_level = sim.risk_level
            /\ req.recommended_approver =
                  (CASE sim.risk_level = "critical" -> "senior_engineer"
                     [] sim.risk_level = "high" -> "team_lead"
                     [] OTHER -> "any_engineer")
            /\ sim.risk_level = "critical" =>
                  (req.urgency = "high" /\ req.timeout = 300)
            /\ sim.risk_level # "critical" =>
                  (req.urgency = "medium" /\ req.timeout = 1800)
            /\ Len(req.key_risks) <= 3
            /\ Len(req.key_risks) = (IF n < 3 THEN n ELSE 3)
            /\ \A k \in 1..Len(req.key_risks) :
                  req.key_risks[k] = sim.failure_modes[k]

\* a request for a critical projection with five failure modes
C31_Witness ==
    /\ lastOp.op = "create_approval_request"
    /\ lastOp.simulation.risk_level = "critical"
    /\ Len(lastOp.simulation.failure_modes) = 5
    /\ Len(lastOp.request.key_risks) = 3

ModificationFor(v) ==
    CASE v = "Time violation" -> "reduce_scope"
      [] v = "Budget violation" -> "optimize_cost"
      [] v = "Permission violation" -> "request_permissions"

\* C32: suggest_modifications returns one modification per violation, in the
\* order of the violations, typed reduce_scope for a time violation,
\* optimize_cost for a budget violation and request_permissions for a
\* permission violation, and the call changes nothing the agents hold.
C32_OneSuggestionPerViolation ==
    /\ [](lastOp.op = "suggest_modifications" =>
            /\ Len(lastOp.modifications) = Len(lastOp.violations)
            /\ \A k \in 1..Len(lastOp.violations) :
                  lastOp.modifications[k] = ModificationFor(lastOp.violations[k]))
    /\ [][lastOp'.op = "suggest_modifications" =>
            /\ violation_log' = violation_log
            /\ simulation_history' = simulation_history
            /\ constraints' = constraints]_vars

\* three violations, the permission violation first, and three suggestions
C32_Witness ==
    /\ lastOp.op = "suggest_modifications"
    /\ Len(lastOp.violations) = 3
    /\ lastOp.violations[1] = "Permission violation"
    /\ Len(lastOp.modifications) = 3

---------------------------------------------------------------------------
(* Claims about the projection the orchestrator chooses *)

\* the projections the simulator returned to the running call
Simulated == simulation_history[Len(simulation_history)].results

\* C33: whatever the number N >= 1 of paths, the orchestrator chooses among
\* the N projections the simulator returned one of the largest success
\* probability, the one of lowest index among equals, and that projection is
\* both what the approval gate is asked about and the recommended_path of the
\* result.
C33_ChoosesMostProbable ==
    best_simulation # <<>> =>
        LET best == best_simulation[1]
        IN  /\ Len(Simulated) = config.num_paths
            /\ \E k \in 1..Len(Simulated) :
                  /\ Simulated[k] = best
                  /\ \A j \in 1..Len(Simulated) :
                        Simulated[j].success_probability <= best.success_probability
                  /\ \A j \in 1..(k - 1) :
                        Simulated[j].success_probability < best.success_probability
            /\ result.simulation[1].recommended_path = best.path_id
            /\ "approval" \in result.stages =>
                  /\ result.approval.required <=> should_request_approval(plan, best)
                  /\ result.approval.required =>
                        result.approval.request
                          = <<create_approval_request(plan, best)>>

\* a call on an orchestrator of four paths has been through the gate
C33_Witness ==
    /\ Returned
    /\ config.num_paths = 4
    /\ "approval" \in result.stages
    /\ result.approval.required
    /\ best_simulation[1].path_id = <<plan.id, 0>>

\* C35: with the default three projections the projection chosen is path 0
\* (low risk, 0.85), so a plan that passes validation needs approval iff its
\* cost is over 50 or its time over 7200; a valid plan of cost 50 and time
\* 1800 is approved without an approval request.
C35_DefaultGate ==
    (Returned /\ ~Raised /\ config.num_paths = NumPaths /\ result.valid) =>
        /\ best_simulation[1].path_id = <<plan.id, 0>>
        /\ best_simulation[1].risk_level = "low"
        /\ best_simulation[1].success_probability = 85
        /\ result.approval.required <=>
              (plan.estimated_cost > 50 \/ plan.estimated_time > 7200)
        /\ (plan.estimated_cost = 50 /\ plan.estimated_time = 1800) =>
              /\ result.status = "approved"
              /\ result.approval.request = <<>>

\* the plan of cost 50 and time 1800 has been approved
C35_Witness ==
    /\ Returned
    /\ ~Raised
    /\ config.num_paths = NumPaths
    /\ plan.estimated_cost = 50
    /\ plan.estimated_time = 1800
    /\ result.status = "approved"
    /\ ~result.approval.required

---------------------------------------------------------------------------
(* Claims about the life of a health record *)

\* C34: a tool's health record, once created, is never deleted or reset:
\* whatever call is made on the monitor, the tool stays tracked, its
\* failure_count does not decrease and its drift flag, once set, stays set.
C34_RecordNeverReset ==
    [][\A t \in DOMAIN tool_metrics :
          /\ t \in DOMAIN tool_metrics'
          /\ tool_metrics'[t].failure_count >= tool_metrics[t].failure_count
          /\ tool_metrics[t].drift_detected => tool_metrics'[t].drift_detected]_vars

---------------------------------------------------------------------------
(* Claims about the engine run by the orchestrator *)

\* C36: the first step whose executor raises ends the run: the status is
\* failed, error holds the message of the step's exception, steps_completed
\* is the number of steps before it, and no step is executed after it.
C36_RaisingStepEndsRun ==
    \A k \in 1..Len(engine.ran) :
        ~engine.ran[k].ok =>
            /\ k = Len(engine.ran)
            /\ engine.status = "failed"
            /\ engine.error = "step"
            /\ engine.steps_completed = k - 1

---------------------------------------------------------------------------
(* Claims about the violation log *)

\* the calls of execute_plan so far whose validation found a violation
InvalidValidations == {k \in 1..Len(returns) : Len(returns[k].violations) > 0}

\* C37: the violation log is append-only.  A validation appends exactly one
\* entry (plan id, timestamp, violations) iff it found a violation and leaves
\* the log unchanged for a valid plan; no step changes or removes an earlier
\* entry; the length of the log is the number of invalid validations so far.
C37_LogAppendOnly ==
    /\ [](Len(violation_log) = Cardinality(InvalidValidations))
    /\ [][/\ Len(violation_log') >= Len(violation_log)
          /\ SubSeq(violation_log', 1, Len(violation_log)) = violation_log
          /\ (pc = "validate" /\ pc' # "validate") =>
                LET v == validate_plan(constraints, plan)
                IN  IF Len(v.violations) > 0
                    THEN violation_log' =
                            Append(violation_log,
                                   [plan_id |-> plan.id, timestamp |-> "now",
                                    violations |-> v.violations])
                    ELSE violation_log' = violation_log
          /\ ~(pc = "validate" /\ pc' # "validate") =>
                violation_log' = violation_log]_vars

\* a second invalid plan was logged after the first, and a valid plan
\* was validated in between or before without an entry
C37_Witness ==
    /\ Len(violation_log) = 2
    /\ violation_log[1].violations # violation_log[2].violations

---------------------------------------------------------------------------
(* Claims about the registration of the background thread *)

\* C38: from the moment the background worker of execute_async(plan) runs,
\* get_execution_status(plan.id) never returns None, whether it is called by
\* the completion callback or by another thread before execute_async has
\* returned.
C38_StatusNeverNone ==
    lastOp.op = "concurrent get_execution_status" => lastOp.value # None

---------------------------------------------------------------------------
(* Claims about the constructor *)

\* C39: constructing TetherOrchestrator with a constraints map keyed by any
\* of time_limit, budget, permissions, regulations succeeds and installs each
\* supplied limit under the same key for the validator; other keys are
\* ignored without error.
C39_ConstructorInstallsLimits ==
    lastOp.op = "TetherOrchestrator" =>
        /\ ~lastOp.raised
        /\ DOMAIN constraints = DOMAIN entry \cap AllowedKeys
        /\ \A k \in DOMAIN constraints : constraints[k] = entry[k]

============================================================================
